---- MODULE Spec2Model ----
(***************************************************************************)
(* A model of the live-player streaming platform (game-stream-common,      *)
(* game-stream-server, game-stream-client).  The module holds several      *)
(* components, each with its own specification over the shared variables:  *)
(*   SpecViewers  one LiveStream's viewer set and descriptor, lock by lock *)
(*   SpecIngest   the RTMP connection handlers over the stream registry    *)
(*   SpecSignal   WebRTC signaling sessions and the expiry reaper          *)
(*   SpecHls      the segment packager and its playlists                   *)
(*   SpecBuffer   the media cache for late joiners                         *)
(*   SpecClient   the client orchestrator and its pusher stage             *)
(***************************************************************************)
EXTENDS Integers, Sequences, FiniteSets, TLC

\* ------------------------------------------------------------------ bounds
NumTasks == 2
NumViewerIds == 2

NumConns == 2
NumKeys == 2
MaxStreams == 2

MaxReconnectAttempts == 2
MaxFrames == 2

MaxTargetDuration == 2
MaxPlaylistLength == 2
HlsMaxNow == 3
NumLiveKeys == 1
MaxPackets == 3
MaxSessions == 1
MaxPushes == 3
\* the largest keyframe_interval (seconds) and fps of a VideoEncoderConfig
MaxKeyframeInterval == 2
MaxFps == 2
\* the number of frames given to one H264Encoder
MaxEncoded == 5
SignalMaxNow == 390
ReaperIntervalSecs == 30
InactivityMinutes == 5

Tasks == 1..NumTasks
LiveKeys == 1..NumLiveKeys
ViewerIds == 1..NumViewerIds
Conns == 1..NumConns
Keys == 1..NumKeys

\* payload sizes on both sides of the keyframe heuristic
PayloadLens == {256, 1024}

None == 0
EmptyKey == 0
NoTime == -1
Free == 0

VARIABLES
  \* one LiveStream, field by field (stream.rs:69-78)
  lsViewers,       \* LiveStream.viewers: the set of viewer ids in the map
  lsViewerCount,   \* LiveStream.info.viewer_count
  viewersLock,     \* RwLock around viewers: [w |-> task or Free, r |-> set of tasks]
  infoLock,        \* RwLock around info:    [w |-> task or Free, r |-> set of tasks]
  vtask            \* each calling task: [pc, id]

VARIABLES
  \* the server's shared state
  registry,        \* StreamManager.streams: stream key -> stream handle or None
  streams,         \* every LiveStream allocated so far, by handle (Arc<LiveStream>)
  auth,            \* AuthManager: [enabled, valid_stream_keys]
  conn             \* each RtmpConnection task: its position and its locals

VARIABLES
  \* the streaming client
  clientCfg,       \* ClientConfig.stream: [auto_reconnect, max_reconnect_attempts]
  client,          \* StreamingClient::start: position, reconnect_attempts, results
  stage,           \* the three stage tasks of the current streaming attempt
  frameQ,          \* the frame channel (capture -> encoder)
  packetQ          \* the packet channel (encoder -> pusher)

VARIABLES
  now,             \* the wall clock (chrono::Utc::now), in seconds
  \* the segment packager
  hlsCfg,          \* StorageConfig: [hls_segment_duration, hls_playlist_length]
  playlists,       \* HlsManager.playlists: a map stream key -> HlsPlaylist
  segments,        \* HlsManager.segments: the keys of the stored segment blobs
  sweep,           \* start_hls_processing: position and the listed streams left
  assigned         \* history: per key, the sequence numbers given to segments

VARIABLES
  \* the init-packet cache
  mediaBuffer,     \* MediaBuffer: video_keyframe, audio_config, metadata (Options)
  fed,             \* history: the packets passed to add_packet, in order
  joined           \* what the last joining viewer was handed, and when

VARIABLES
  \* WebRTC signaling
  peer_connections,  \* the session table: a map session id -> WebRtcPeerConnection
  nextSession,       \* how many session ids (Uuid::new_v4) were drawn so far
  reaper,            \* cleanup_connections: whether its 30 s sleep has elapsed
  signalResult       \* what the last handle_signal call returned

VARIABLES
  \* the stream registry called directly
  lastOp,          \* history: per key, the last of create_stream / remove_stream
  got              \* what the last get_stream call returned: [key, handle]

VARIABLES
  \* the AuthManager called directly
  authInit,        \* history: the allow-list of the AuthConfig it was built from
  authLast,        \* history: per key, the last of add_stream_key / remove_stream_key
  validated        \* what the last validate_stream_key call returned: [key, result]

VARIABLES
  \* one pusher called directly
  pusher,          \* RtmpPusher / SrtPusher: [kind, connected]
  pushed,          \* history: the packets handed to the transport, in order
  pushResult       \* the last call on the pusher and what it returned

VARIABLES
  \* the HTTP front of the packager
  httpResponse     \* the last GET /hls/{key}/{segment}: [stored, status]

viewerVars == <<lsViewers, lsViewerCount, viewersLock, infoLock, vtask>>
ingestVars == <<registry, streams, auth, conn>>

clientVars == <<clientCfg, client, stage, frameQ, packetQ>>

hlsVars == <<hlsCfg, playlists, segments, sweep, assigned>>

bufferVars == <<mediaBuffer, fed, joined>>

signalVars == <<peer_connections, nextSession, reaper, signalResult>>

registryVars == <<lastOp, got>>

authLogVars == <<authInit, authLast, validated>>

pusherVars == <<pusher, pushed, pushResult>>

httpVars == <<httpResponse>>

VARIABLES
  \* the RTMP session as the client sees it
  connect_seen     \* history: the connections whose Connect was answered

sessionVars == <<connect_seen>>

VARIABLES
  \* LiveStream::set_status called by several tasks on one stream
  lsStatus,        \* LiveStream.status
  lsIsLive,        \* LiveStream.info.is_live
  statusLock,      \* the writer of the status RwLock (a task) or Free
  stask            \* per task: [pc, status] of its set_status call

statusVars == <<lsStatus, lsIsLive, statusLock, stask>>

VARIABLES
  \* the packager's sweep as its log shows it
  sweepLog         \* history of the current round: [listed, results]

sweepLogVars == <<sweepLog>>

VARIABLES
  \* PusherManager::start_pushing run on its own
  pushStage        \* [pc, result] and the history of its calls: events

pushStageVars == <<pushStage>>

VARIABLES
  \* the client's pipeline as its queues were used in the current attempt
  pipeLog          \* history: [captured, skipped, dropped, reached]

pipeLogVars == <<pipeLog>>

VARIABLES
  \* one H264Encoder called directly
  h264,            \* H264Encoder: [keyframe_interval, fps, frame_count]
  encoded          \* history: the packets encode_frame returned, in order

encoderVars == <<h264, encoded>>

vars == <<viewerVars, ingestVars, clientVars, now, hlsVars, bufferVars,
          signalVars,
          registryVars,
          authLogVars,
          pusherVars,
          httpVars,
          sessionVars,
          statusVars,
          sweepLogVars,
          pushStageVars,
          pipeLogVars,
          encoderVars>>

\* =================================================================
\* LiveStream::add_viewer / remove_viewer, one step per lock acquisition
\* =================================================================

\* tokio RwLock: a writer needs the lock free of writers and readers,
\* a reader needs it free of writers.
CanWrite(lock) == lock.w = Free /\ lock.r = {}
CanRead(lock) == lock.w = Free

IdleTask == [pc |-> "idle", id |-> None]

InitViewers ==
  /\ lsViewers = {}
  /\ lsViewerCount = 0
  /\ viewersLock = [w |-> Free, r |-> {}]
  /\ infoLock = [w |-> Free, r |-> {}]
  /\ vtask = [t \in Tasks |-> IdleTask]

\* add_viewer is called: the task waits for viewers.write()
AddViewerCall(t, id) ==
  /\ vtask[t].pc = "idle"
  /\ vtask' = [vtask EXCEPT ![t] = [pc |-> "add_insert", id |-> id]]
  /\ UNCHANGED <<lsViewers, lsViewerCount, viewersLock, infoLock>>

\* stream.rs:106-109: viewers.write(); insert; the guard drops at the block's end
AddViewerInsert(t) ==
  /\ vtask[t].pc = "add_insert"
  /\ CanWrite(viewersLock)
  /\ lsViewers' = lsViewers \cup {vtask[t].id}
  /\ vtask' = [vtask EXCEPT ![t].pc = "add_info"]
  /\ UNCHANGED <<lsViewerCount, viewersLock, infoLock>>

\* stream.rs:113: info.write() is acquired and held
AddViewerLockInfo(t) ==
  /\ vtask[t].pc = "add_info"
  /\ CanWrite(infoLock)
  /\ infoLock' = [infoLock EXCEPT !.w = t]
  /\ vtask' = [vtask EXCEPT ![t].pc = "add_len"]
  /\ UNCHANGED <<lsViewers, lsViewerCount, viewersLock>>

\* An add_viewer that counts calls instead of reading the set's length
AddViewerUpdateCountByIncrement(t) ==
  /\ vtask[t].pc = "add_len"
  /\ CanRead(viewersLock)
  /\ lsViewerCount' = lsViewerCount + 1
  /\ infoLock' = [infoLock EXCEPT !.w = Free]
  /\ vtask' = [vtask EXCEPT ![t] = IdleTask]
  /\ UNCHANGED <<lsViewers, viewersLock>>

\* stream.rs:114-115: viewers.read().len() is stored while info.write() is held;
\* both guards drop when the statement and the block end
AddViewerUpdateCount(t) ==
  /\ vtask[t].pc = "add_len"
  /\ CanRead(viewersLock)
  /\ lsViewerCount' = Cardinality(lsViewers)
  /\ infoLock' = [infoLock EXCEPT !.w = Free]
  /\ vtask' = [vtask EXCEPT ![t] = IdleTask]
  /\ UNCHANGED <<lsViewers, viewersLock>>

\* remove_viewer is called: the task waits for viewers.write()
RemoveViewerCall(t, id) ==
  /\ vtask[t].pc = "idle"
  /\ vtask' = [vtask EXCEPT ![t] = [pc |-> "rm_write", id |-> id]]
  /\ UNCHANGED <<lsViewers, lsViewerCount, viewersLock, infoLock>>

\* stream.rs:122-123: viewers.write() is acquired and held; remove
RemoveViewerRemove(t) ==
  /\ vtask[t].pc = "rm_write"
  /\ CanWrite(viewersLock)
  /\ viewersLock' = [viewersLock EXCEPT !.w = t]
  /\ lsViewers' = lsViewers \ {vtask[t].id}
  /\ vtask' = [vtask EXCEPT ![t].pc = "rm_info"]
  /\ UNCHANGED <<lsViewerCount, infoLock>>

\* stream.rs:126-128: info.write(); viewer_count = viewers.len(); both guards drop
RemoveViewerUpdateCount(t) ==
  /\ vtask[t].pc = "rm_info"
  /\ CanWrite(infoLock)
  /\ lsViewerCount' = Cardinality(lsViewers)
  /\ viewersLock' = [viewersLock EXCEPT !.w = Free]
  /\ vtask' = [vtask EXCEPT ![t] = IdleTask]
  /\ UNCHANGED <<lsViewers, infoLock>>

\* =================================================================
\* StreamManager, LiveStream and AuthManager
\* =================================================================

\* LiveStream::new: the receiver half of the media channel is bound to `_`
\* and dropped at once, so the channel is closed from the start.
\* creator is a history field: the connection whose Publish made the stream.
LiveStreamNew(key, creator) ==
  [stream_key |-> key, status |-> "Starting", is_live |-> FALSE,
   viewers |-> {}, viewer_count |-> 0, receiver_alive |-> FALSE,
   creator |-> creator]

\* LiveStream::set_status on a stream record
SetStatus(s, status) ==
  [s EXCEPT !.status = status,
            !.is_live = IF status = "Live" THEN TRUE
                        ELSE IF status \in {"Stopped", "Error"} THEN FALSE
                        ELSE @]

\* LiveStream::send_media_packet: UnboundedSender::send fails when the
\* receiver is gone
SendMediaPacket(s) == IF s.receiver_alive THEN "Ok" ELSE "Internal"

\* StreamManager::get_stream
GetStream(k) == registry[k]

\* the stream keys a caller can pass: the ones in use and the empty string
AuthInputs == Keys \cup {EmptyKey}

\* A validate_stream_key that looks only at the allow-list
ValidateStreamKeyListOnly(k) == k \in auth.valid_stream_keys

\* AuthManager::validate_stream_key
ValidateStreamKey(k) == (~auth.enabled) \/ (k \in auth.valid_stream_keys)

\* the AuthManager API has not been called yet
IdleAuthLog ==
  /\ authInit = {}
  /\ authLast = [k \in AuthInputs |-> "none"]
  /\ validated = [key |-> None, result |-> FALSE]

\* AuthManager::validate_stream_key, as a call whose result is kept
ValidateCall(k) ==
  /\ validated' = [key |-> k, result |-> ValidateStreamKey(k)]
  /\ UNCHANGED <<ingestVars, authInit, authLast>>

\* AuthManager::add_stream_key
AddStreamKey(k) ==
  /\ auth' = [auth EXCEPT !.valid_stream_keys = @ \cup {k}]
  /\ authLast' = [authLast EXCEPT ![k] = "add"]
  /\ UNCHANGED <<registry, streams, conn, authInit, validated>>

\* AuthManager::remove_stream_key
RemoveStreamKey(k) ==
  /\ auth' = [auth EXCEPT !.valid_stream_keys = @ \ {k}]
  /\ authLast' = [authLast EXCEPT ![k] = "remove"]
  /\ UNCHANGED <<registry, streams, conn, authInit, validated>>

\* the registry API has not been called yet
InitRegistry ==
  /\ lastOp = [k \in Keys |-> "none"]
  /\ got = [key |-> None, handle |-> None]

\* A create_stream that keeps an entry that is already there
CreateStreamKeepExisting(k) ==
  /\ Len(streams) < MaxStreams
  /\ streams' = Append(streams, LiveStreamNew(k, None))
  /\ registry' = [registry EXCEPT ![k] =
                    IF @ = None THEN Len(streams) + 1 ELSE @]
  /\ lastOp' = [lastOp EXCEPT ![k] = "create"]
  /\ UNCHANGED <<auth, conn, got>>

\* StreamManager::create_stream: a new LiveStream, inserted under the key
CreateStream(k) ==
  /\ Len(streams) < MaxStreams
  /\ streams' = Append(streams, LiveStreamNew(k, None))
  /\ registry' = [registry EXCEPT ![k] = Len(streams) + 1]
  /\ lastOp' = [lastOp EXCEPT ![k] = "create"]
  /\ UNCHANGED <<auth, conn, got>>

\* StreamManager::get_stream, as a call whose result is kept
GetStreamCall(k) ==
  /\ got' = [key |-> k, handle |-> GetStream(k)]
  /\ UNCHANGED <<ingestVars, lastOp>>

\* A remove_stream that hands the entry back without taking it out
RemoveStreamKeepsEntry(k) ==
  /\ lastOp' = [lastOp EXCEPT ![k] = "remove"]
  /\ UNCHANGED <<ingestVars, got>>

\* StreamManager::remove_stream
RemoveStream(k) ==
  /\ registry' = [registry EXCEPT ![k] = None]
  /\ lastOp' = [lastOp EXCEPT ![k] = "remove"]
  /\ UNCHANGED <<streams, auth, conn, got>>

\* LiveStream::set_status called on a handle
SetStreamStatus(s, status) ==
  /\ s \in 1..Len(streams)
  /\ streams' = [streams EXCEPT ![s] = SetStatus(@, status)]
  /\ UNCHANGED <<registry, auth, conn, lastOp, got>>

\* What a publisher does to the registry when its Publish is accepted:
\* create_stream(key) followed by set_status(Live), taken as one step
PublishStream(k) ==
  /\ Len(streams) < MaxStreams
  /\ streams' = Append(streams, SetStatus(LiveStreamNew(k, None), "Live"))
  /\ registry' = [registry EXCEPT ![k] = Len(streams) + 1]
  /\ UNCHANGED <<auth, conn>>

\* What a publisher does to the registry when it leaves: get_stream(key),
\* set_status(Stopped) on the result, remove_stream(key), taken as one step
UnpublishStream(k) ==
  /\ registry[k] # None
  /\ streams' = [streams EXCEPT ![registry[k]] = SetStatus(@, "Stopped")]
  /\ registry' = [registry EXCEPT ![k] = None]
  /\ UNCHANGED <<auth, conn>>

\* StreamManager::list_streams: a snapshot of the (key, handle) pairs
ListStreams == {<<k, registry[k]>> : k \in {x \in Keys : registry[x] # None}}

\* time passes
Tick(d) ==
  /\ now' = now + d

\* =================================================================
\* RtmpConnection::handle / process_messages
\* =================================================================

\* pc: the task's position; stream_key, live_stream: the locals of
\* process_messages; pending_stream: the handle create_stream returned, before
\* the locals are assigned; cleanup_stream: the handle the cleanup's get_stream
\* returned; result: what handle() returned ("Ok" is reached only through the
\* cleanup after a Disconnect or a read failure)
NewConn ==
  [pc |-> "handshake", stream_key |-> None,
   live_stream |-> None, pending_stream |-> None,
   cleanup_stream |-> None, result |-> "none"]

\* AuthManager::new from any AuthConfig
InitAuth ==
  /\ auth \in [enabled : BOOLEAN, valid_stream_keys : SUBSET AuthInputs]
  /\ authInit = auth.valid_stream_keys
  /\ authLast = [k \in AuthInputs |-> "none"]
  /\ validated = [key |-> None, result |-> FALSE]
  /\ registry = [k \in Keys |-> None]
  /\ streams = <<>>
  /\ conn = [c \in Conns |-> NewConn]

InitIngest ==
  /\ registry = [k \in Keys |-> None]
  /\ streams = <<>>
  /\ auth \in [enabled : {TRUE}, valid_stream_keys : SUBSET Keys]
             \cup {[enabled |-> FALSE, valid_stream_keys |-> {}]}
  /\ conn = [c \in Conns |-> NewConn]

IdleIngest ==
  /\ registry = [k \in Keys |-> None]
  /\ streams = <<>>
  /\ auth = [enabled |-> FALSE, valid_stream_keys |-> {}]
  /\ conn = [c \in Conns |-> NewConn]

\* RtmpConnection::perform_handshake, then process_messages starts
PerformHandshake(c) ==
  /\ conn[c].pc = "handshake"
  /\ conn' = [conn EXCEPT ![c].pc = "loop"]
  /\ UNCHANGED <<registry, streams, auth>>

\* RtmpMessage::Connect: logged and answered, no state is kept
Connect(c) ==
  /\ conn[c].pc = "loop"
  /\ UNCHANGED conn
  /\ UNCHANGED <<registry, streams, auth>>

\* A slip in the Publish arm: the stream is created before the key is checked
PublishRejectAfterCreate(c, k) ==
  /\ Len(streams) < MaxStreams
  /\ streams' = Append(streams, LiveStreamNew(k, c))
  /\ registry' = [registry EXCEPT ![k] = Len(streams) + 1]
  /\ conn' = [conn EXCEPT ![c].pc = "closed", ![c].result = "Auth"]
  /\ UNCHANGED auth

\* Publish with a key the auth gate rejects: return Err(Auth) at once
PublishRejectBody(c, k) ==
  /\ conn' = [conn EXCEPT ![c].pc = "closed", ![c].result = "Auth"]
  /\ UNCHANGED <<registry, streams, auth>>

\* Publish with an accepted key, first half: StreamManager::create_stream
\* allocates the LiveStream and inserts it (replacing any entry of the key)
PublishCreateBody(c, k) ==
  /\ Len(streams) < MaxStreams
  /\ streams' = Append(streams, LiveStreamNew(k, c))
  /\ registry' = [registry EXCEPT ![k] = Len(streams) + 1]
  /\ conn' = [conn EXCEPT ![c].pc = "publish_live",
                          ![c].pending_stream = Len(streams) + 1]
  /\ UNCHANGED auth

\* RtmpMessage::Publish
Publish(c, k) ==
  /\ conn[c].pc = "loop"
  /\ IF ~ValidateStreamKey(k) THEN PublishRejectBody(c, k)
                              ELSE PublishCreateBody(c, k)

\* Publish, second half: set_status(Live), then the locals are assigned
PublishSetLive(c) ==
  /\ conn[c].pc = "publish_live"
  /\ streams' = [streams EXCEPT ![conn[c].pending_stream] = SetStatus(@, "Live")]
  /\ conn' = [conn EXCEPT ![c].pc = "loop",
                          ![c].stream_key =
                              streams[conn[c].pending_stream].stream_key,
                          ![c].live_stream = conn[c].pending_stream,
                          ![c].pending_stream = None]
  /\ UNCHANGED <<registry, auth>>

\* The VideoData and AudioData arms: the packet is forwarded when a stream is
\* published; a send error leaves process_messages through `?`
ForwardMedia(c) ==
  /\ conn[c].pc = "loop"
  /\ IF conn[c].live_stream = None
       THEN UNCHANGED conn
       ELSE IF SendMediaPacket(streams[conn[c].live_stream]) = "Ok"
         THEN UNCHANGED conn
         ELSE conn' = [conn EXCEPT ![c].pc = "closed",
                                   ![c].result = "Internal"]
  /\ UNCHANGED <<registry, streams, auth>>

\* RtmpConnection::is_keyframe: a payload of more than 1000 bytes
IsKeyframe(len) == len > 1000

\* RtmpMessage::VideoData, tagged by is_keyframe(payload)
VideoData(c, len) ==
  /\ IsKeyframe(len) \in BOOLEAN
  /\ ForwardMedia(c)

\* RtmpMessage::AudioData
AudioData(c) == ForwardMedia(c)

\* RtmpMessage::Disconnect: break out of the loop
Disconnect(c) ==
  /\ conn[c].pc = "loop"
  /\ conn' = [conn EXCEPT ![c].pc = "cleanup"]
  /\ UNCHANGED <<registry, streams, auth>>

\* read_rtmp_message returns Err: break out of the loop
ReadFail(c) ==
  /\ conn[c].pc = "loop"
  /\ conn' = [conn EXCEPT ![c].pc = "cleanup"]
  /\ UNCHANGED <<registry, streams, auth>>

\* no Connect has been answered yet
IdleSession == connect_seen = {}

\* RtmpMessage::Connect as the client sees it: send_connect_response answers
ConnectAnswered(c) ==
  /\ Connect(c)
  /\ connect_seen' = connect_seen \cup {c}

\* cleanup, first step: nothing to do without a key; else get_stream(key)
CleanupGet(c) ==
  /\ conn[c].pc = "cleanup"
  /\ IF conn[c].stream_key = None
       THEN conn' = [conn EXCEPT ![c].pc = "closed", ![c].result = "Ok"]
       ELSE conn' = [conn EXCEPT ![c].pc = "cleanup_stop",
                       ![c].cleanup_stream = GetStream(conn[c].stream_key)]
  /\ UNCHANGED <<registry, streams, auth>>

\* cleanup, second step: set_status(Stopped) on the stream get_stream gave
CleanupStop(c) ==
  /\ conn[c].pc = "cleanup_stop"
  /\ IF conn[c].cleanup_stream = None
       THEN UNCHANGED streams
       ELSE streams' = [streams EXCEPT ![conn[c].cleanup_stream] =
                                         SetStatus(@, "Stopped")]
  /\ conn' = [conn EXCEPT ![c].pc = "cleanup_remove", ![c].cleanup_stream = None]
  /\ UNCHANGED <<registry, auth>>

\* cleanup, last step: remove_stream(key); process_messages returns Ok
CleanupRemove(c) ==
  /\ conn[c].pc = "cleanup_remove"
  /\ registry' = [registry EXCEPT ![conn[c].stream_key] = None]
  /\ conn' = [conn EXCEPT ![c].pc = "closed", ![c].result = "Ok"]
  /\ UNCHANGED <<streams, auth>>

\* =================================================================
\* StreamingClient::start / run_streaming_loop and the three stages
\* =================================================================

\* The stage tasks before run_streaming_loop has spawned them.
\* video, audio: the two capture loops; enc: the encoder stage; push: the
\* pusher stage's position; connected: RtmpPusher/SrtPusher.connected;
\* push_result: what start_pushing returned; captured: frames captured so far
NoStages ==
  [video |-> "none", audio |-> "none", enc |-> "none", push |-> "none",
   connected |-> FALSE, push_result |-> "none", captured |-> 0]

\* sleeps, attempts, push_ok_seen, push_fail_seen are history fields
NewClient ==
  [pc |-> "start", reconnect_attempts |-> 0, run_result |-> "none",
   result |-> "none", sleeps |-> 0, attempts |-> 0,
   push_ok_seen |-> FALSE, push_fail_seen |-> FALSE]

InitClient ==
  /\ clientCfg \in [auto_reconnect : BOOLEAN,
                    max_reconnect_attempts : 0..MaxReconnectAttempts]
  /\ client = NewClient
  /\ stage = NoStages
  /\ frameQ = <<>>
  /\ packetQ = <<>>

IdleClient ==
  /\ clientCfg = [auto_reconnect |-> TRUE, max_reconnect_attempts |-> 0]
  /\ client = NewClient
  /\ stage = NoStages
  /\ frameQ = <<>>
  /\ packetQ = <<>>

\* run_streaming_loop up to the select: fresh channels; the capture task is
\* spawned, then EncoderManager::new and PusherManager::new, each of which
\* may fail and make run_streaming_loop return Err
RunStreamingLoop(encoder_ok, pusher_ok) ==
  /\ client.pc = "start"
  /\ frameQ' = <<>>
  /\ packetQ' = <<>>
  /\ IF encoder_ok /\ pusher_ok
       THEN /\ stage' = [video |-> "run", audio |-> "run", enc |-> "run",
                         push |-> "connect", connected |-> FALSE,
                         push_result |-> "none", captured |-> 0]
            /\ client' = [client EXCEPT !.pc = "select",
                                        !.attempts = @ + 1]
       ELSE /\ stage' = [NoStages EXCEPT
                           !.video = "run", !.audio = "run",
                           !.enc = IF encoder_ok THEN "run" ELSE "none"]
            /\ client' = [client EXCEPT !.pc = "attempt_done",
                                        !.run_result = "Err",
                                        !.attempts = @ + 1]
  /\ UNCHANGED clientCfg

\* the frame channel's receiver lives in the encoder task
FrameReceiverAlive == stage.enc = "run"
\* the frame channel's senders live in the capture loops
FrameSendersAlive == stage.video = "run" \/ stage.audio = "run"
\* the packet channel's receiver lives in the pusher task
PacketReceiverAlive == stage.push \notin {"none", "done"}
\* the packet channel's sender lives in the encoder task
PacketSenderAlive == stage.enc = "run"

\* A capture loop that gives up when capture_frame fails
CaptureIterationExitOnFailure(kind, captured_ok) ==
  IF ~captured_ok \/ ~FrameReceiverAlive
    THEN /\ stage' = IF kind = "Video" THEN [stage EXCEPT !.video = "done"]
                                       ELSE [stage EXCEPT !.audio = "done"]
         /\ UNCHANGED frameQ
    ELSE /\ stage.captured < MaxFrames
         /\ frameQ' = Append(frameQ, [kind |-> kind, ts |-> stage.captured + 1])
         /\ stage' = [stage EXCEPT !.captured = @ + 1]

\* one iteration of a capture loop that reaches capture_frame: a failed
\* capture backs off and retries; a captured frame is sent, and the loop
\* breaks when the send fails
CaptureIteration(kind, captured_ok) ==
  IF ~captured_ok
    THEN UNCHANGED <<stage, frameQ>>
    ELSE IF FrameReceiverAlive
      THEN /\ stage.captured < MaxFrames
           /\ frameQ' = Append(frameQ, [kind |-> kind, ts |-> stage.captured + 1])
           /\ stage' = [stage EXCEPT !.captured = @ + 1]
      ELSE /\ stage' = IF kind = "Video" THEN [stage EXCEPT !.video = "done"]
                                         ELSE [stage EXCEPT !.audio = "done"]
           /\ UNCHANGED frameQ

\* VideoCapturer::start_capture
VideoCapture(captured_ok) ==
  /\ stage.video = "run"
  /\ CaptureIteration("Video", captured_ok)
  /\ UNCHANGED <<clientCfg, client, packetQ>>

\* AudioCapturer::start_capture
AudioCapture(captured_ok) ==
  /\ stage.audio = "run"
  /\ CaptureIteration("Audio", captured_ok)
  /\ UNCHANGED <<clientCfg, client, packetQ>>

\* An encoder stage that returns the error of encode_frame
EncoderRecvFailFast(encoded_ok) ==
  /\ stage.enc = "run"
  /\ IF frameQ # <<>>
       THEN /\ frameQ' = Tail(frameQ)
            /\ IF ~encoded_ok
                 THEN /\ stage' = [stage EXCEPT !.enc = "done"]
                      /\ UNCHANGED packetQ
                 ELSE IF PacketReceiverAlive
                   THEN /\ packetQ' = Append(packetQ, Head(frameQ))
                        /\ UNCHANGED stage
                   ELSE /\ stage' = [stage EXCEPT !.enc = "done"]
                        /\ UNCHANGED packetQ
       ELSE /\ ~FrameSendersAlive
            /\ stage' = [stage EXCEPT !.enc = "done"]
            /\ UNCHANGED <<frameQ, packetQ>>
  /\ UNCHANGED <<clientCfg, client>>

\* An encoder stage that goes on after a failed packet send
EncoderRecvIgnoringSendFailure(encoded_ok) ==
  /\ stage.enc = "run"
  /\ IF frameQ # <<>>
       THEN /\ frameQ' = Tail(frameQ)
            /\ IF encoded_ok /\ PacketReceiverAlive
                 THEN /\ packetQ' = Append(packetQ, Head(frameQ))
                      /\ UNCHANGED stage
                 ELSE UNCHANGED <<stage, packetQ>>
       ELSE /\ ~FrameSendersAlive
            /\ stage' = [stage EXCEPT !.enc = "done"]
            /\ UNCHANGED <<frameQ, packetQ>>
  /\ UNCHANGED <<clientCfg, client>>

\* EncoderManager::start_encoding, one turn of `while let Some(frame) =
\* recv()`: with a frame queued, an encode error skips it, else its one packet
\* is sent and the stage returns when the send fails; with no frame queued
\* recv() returns None once every sender is gone, and the stage returns
EncoderRecv(encoded_ok) ==
  /\ stage.enc = "run"
  /\ IF frameQ # <<>>
       THEN /\ frameQ' = Tail(frameQ)
            /\ IF ~encoded_ok
                 THEN UNCHANGED <<stage, packetQ>>
                 ELSE IF PacketReceiverAlive
                   THEN /\ packetQ' = Append(packetQ, Head(frameQ))
                        /\ UNCHANGED stage
                   ELSE /\ stage' = [stage EXCEPT !.enc = "done"]
                        /\ UNCHANGED packetQ
       ELSE /\ ~FrameSendersAlive
            /\ stage' = [stage EXCEPT !.enc = "done"]
            /\ UNCHANGED <<frameQ, packetQ>>
  /\ UNCHANGED <<clientCfg, client>>

\* PusherManager::start_pushing: pusher.connect().await?
PusherConnect(net_ok) ==
  /\ stage.push = "connect"
  /\ stage' = IF net_ok
                THEN [stage EXCEPT !.push = "recv", !.connected = TRUE]
                ELSE [stage EXCEPT !.push = "done", !.push_result = "Err"]
  /\ UNCHANGED <<clientCfg, client, frameQ, packetQ>>

\* push_packet: a Network error when not connected, else the transport's answer
PushPacket(connected, net_ok) ==
  IF ~connected THEN "Network" ELSE IF net_ok THEN "Ok" ELSE "Network"

\* A pusher stage whose channel hands out the newest packet first
PusherRecvNewestFirst(net_ok, reconnect_ok) ==
  /\ stage.push = "recv"
  /\ IF packetQ # <<>>
       THEN /\ packetQ' = SubSeq(packetQ, 1, Len(packetQ) - 1)
            /\ IF PushPacket(stage.connected, net_ok) = "Ok"
                 THEN /\ client' = [client EXCEPT !.push_ok_seen = TRUE]
                      /\ UNCHANGED stage
                 ELSE /\ client' = [client EXCEPT !.push_fail_seen = TRUE]
                      /\ stage' = IF reconnect_ok
                           THEN [stage EXCEPT !.connected = TRUE]
                           ELSE [stage EXCEPT !.connected = FALSE,
                                              !.push = "done",
                                              !.push_result = "Err"]
       ELSE /\ ~PacketSenderAlive
            /\ stage' = [stage EXCEPT !.push = "done", !.connected = FALSE,
                                      !.push_result = "Ok"]
            /\ UNCHANGED <<client, packetQ>>
  /\ UNCHANGED <<clientCfg, frameQ>>

\* start_pushing, one turn of `while let Some(packet) = recv()`: with a packet
\* queued, push it, and on an error try reconnect() (disconnect, settle,
\* connect) once, returning the push error if that fails; with no packet
\* queued recv() returns None once the sender is gone, and the stage
\* disconnects and returns Ok
PusherRecv(net_ok, reconnect_ok) ==
  /\ stage.push = "recv"
  /\ IF packetQ # <<>>
       THEN /\ packetQ' = Tail(packetQ)
            /\ IF PushPacket(stage.connected, net_ok) = "Ok"
                 THEN /\ client' = [client EXCEPT !.push_ok_seen = TRUE]
                      /\ UNCHANGED stage
                 ELSE /\ client' = [client EXCEPT !.push_fail_seen = TRUE]
                      /\ stage' = IF reconnect_ok
                           THEN [stage EXCEPT !.connected = TRUE]
                           ELSE [stage EXCEPT !.connected = FALSE,
                                              !.push = "done",
                                              !.push_result = "Err"]
       ELSE /\ ~PacketSenderAlive
            /\ stage' = [stage EXCEPT !.push = "done", !.connected = FALSE,
                                      !.push_result = "Ok"]
            /\ UNCHANGED <<client, packetQ>>
  /\ UNCHANGED <<clientCfg, frameQ>>

\* RtmpPusher::new / SrtPusher::new
PusherNew(kind) == [kind |-> kind, connected |-> FALSE]

\* create_pusher for either implemented protocol
InitPusher ==
  /\ pusher \in {PusherNew("Rtmp"), PusherNew("Srt")}
  /\ pushed = <<>>
  /\ pushResult = [call |-> "none", result |-> "none"]

\* no pusher is exercised
IdlePusher ==
  /\ pusher = PusherNew("Rtmp")
  /\ pushed = <<>>
  /\ pushResult = [call |-> "none", result |-> "none"]

\* the packet kinds a caller can push
PacketKinds == {"Video", "Audio", "Metadata"}

\* connect(): the transport comes up or the call fails
ConnectCall(net_ok) ==
  /\ pusher' = IF net_ok THEN [pusher EXCEPT !.connected = TRUE] ELSE pusher
  /\ pushResult' = [call |-> "connect",
                    result |-> IF net_ok THEN "Ok" ELSE "Network"]
  /\ UNCHANGED pushed

\* A push_packet that connects on demand when it finds the pusher down
PushCallConnecting(kind, net_ok) ==
  /\ Len(pushed) < MaxPushes
  /\ pusher' = [pusher EXCEPT !.connected = TRUE]
  /\ pushed' = Append(pushed, kind)
  /\ pushResult' = [call |-> "push", result |-> "Ok"]

\* push_packet(packet)
PushCall(kind, net_ok) ==
  /\ Len(pushed) < MaxPushes
  /\ LET r == PushPacket(pusher.connected, net_ok)
     IN /\ pushResult' = [call |-> "push", result |-> r]
        /\ pushed' = IF r = "Ok" THEN Append(pushed, kind) ELSE pushed
  /\ UNCHANGED pusher

\* disconnect()
DisconnectCall ==
  /\ pusher' = [pusher EXCEPT !.connected = FALSE]
  /\ pushResult' = [call |-> "disconnect", result |-> "Ok"]
  /\ UNCHANGED pushed

\* reconnect(): disconnect()?, settle one second, connect()?
ReconnectCall(net_ok) ==
  /\ pusher' = [pusher EXCEPT !.connected = net_ok]
  /\ pushResult' = [call |-> "reconnect",
                    result |-> IF net_ok THEN "Ok" ELSE "Network"]
  /\ UNCHANGED pushed

\* start_pushing has not been called
IdlePushStage == pushStage = [pc |-> "start", result |-> "none", events |-> <<>>]

\* an error with the call it came from
ErrorOf(class, call) == [class |-> class, from |-> call]

\* the packets start_pushing has taken from its channel
PacketsTaken ==
  Cardinality({i \in 1..Len(pushStage.events) :
                 pushStage.events[i] \in {"push_ok", "push_err"}})

\* A start_pushing that reports why the reconnect failed
ReconnectFailedReturnsLatest(e, reconnect_err) == reconnect_err

\* `if let Err(reconnect_err) = pusher.reconnect() { return Err(e) }`
ReconnectFailedReturns(e, reconnect_err) == e

\* start_pushing: pusher.connect().await?
StartPushingConnect(net_ok) ==
  /\ pushStage.pc = "start"
  /\ IF net_ok
       THEN /\ pusher' = [pusher EXCEPT !.connected = TRUE]
            /\ pushStage' = [pushStage EXCEPT !.pc = "recv"]
       ELSE /\ pusher' = pusher
            /\ pushStage' = [pushStage EXCEPT !.pc = "done",
                                !.result = ErrorOf("Network", "connect")]
  /\ UNCHANGED <<pushed, pushResult>>

\* start_pushing, one turn of the while loop with a packet received: push it,
\* and on an error call reconnect() once
StartPushingPacket(kind, net_ok, reconnect_ok) ==
  /\ pushStage.pc = "recv"
  /\ PacketsTaken < MaxPushes
  /\ IF PushPacket(pusher.connected, net_ok) = "Ok"
       THEN /\ pushed' = Append(pushed, kind)
            /\ pushStage' = [pushStage EXCEPT !.events = Append(@, "push_ok")]
            /\ UNCHANGED pusher
       ELSE /\ pushed' = pushed
            /\ pusher' = [pusher EXCEPT !.connected = reconnect_ok]
            /\ pushStage' = IF reconnect_ok
                 THEN [pushStage EXCEPT
                         !.events = @ \o <<"push_err", "reconnect_ok">>]
                 ELSE [pc |-> "done",
                       result |-> ReconnectFailedReturns(
                                    ErrorOf("Network", "push_packet"),
                                    ErrorOf("Network", "reconnect")),
                       events |-> pushStage.events
                                    \o <<"push_err", "reconnect_err">>]
  /\ UNCHANGED pushResult

\* start_pushing: recv() returns None, pusher.disconnect().await?, Ok(())
StartPushingEnd ==
  /\ pushStage.pc = "recv"
  /\ pusher' = [pusher EXCEPT !.connected = FALSE]
  /\ pushStage' = [pushStage EXCEPT !.pc = "done", !.result = "Ok"]
  /\ UNCHANGED <<pushed, pushResult>>

\* the channels of an attempt before anything was sent
NoPipeLog == [captured |-> <<>>, skipped |-> {}, dropped |-> {}, reached |-> <<>>]

IdlePipeLog == pipeLog = NoPipeLog

\* the one item a receive took from a channel: in q before, not in q2 after
Taken(q, q2) ==
  LET i == CHOOSE j \in 1..Len(q) : \A m \in 1..Len(q2) : q2[m] # q[j]
  IN q[i]

\* run_streaming_loop creates the two channels afresh
RunStreamingLoopLogged(encoder_ok, pusher_ok) ==
  /\ RunStreamingLoop(encoder_ok, pusher_ok)
  /\ pipeLog' = NoPipeLog

\* a capture loop: frame_sender.send(frame) succeeded or nothing was sent
CaptureLogged ==
  pipeLog' = IF Len(frameQ') > Len(frameQ)
               THEN [pipeLog EXCEPT !.captured = Append(@, frameQ'[Len(frameQ')])]
               ELSE pipeLog

VideoCaptureLogged(captured_ok) == VideoCapture(captured_ok) /\ CaptureLogged

AudioCaptureLogged(captured_ok) == AudioCapture(captured_ok) /\ CaptureLogged

\* start_encoding: the frame received was skipped on an encode error, or its
\* packet was sent, or the send failed because the receiver is gone
EncoderRecvLogged(encoded_ok) ==
  /\ EncoderRecv(encoded_ok)
  /\ pipeLog' =
       IF Len(frameQ') = Len(frameQ) THEN pipeLog
       ELSE IF Len(packetQ') > Len(packetQ) THEN pipeLog
       ELSE IF ~encoded_ok
         THEN [pipeLog EXCEPT !.skipped = @ \cup {Taken(frameQ, frameQ').ts}]
         ELSE [pipeLog EXCEPT !.dropped = @ \cup {Taken(frameQ, frameQ').ts}]

\* start_pushing: the packet recv() returned is handed to push_packet
PusherRecvLogged(net_ok, reconnect_ok) ==
  /\ PusherRecv(net_ok, reconnect_ok)
  /\ pipeLog' =
       IF Len(packetQ') = Len(packetQ) THEN pipeLog
       ELSE [pipeLog EXCEPT !.reached = Append(@, Taken(packetQ, packetQ'))]

\* H264Encoder::new
H264EncoderNew(keyframe_interval, fps) ==
  [keyframe_interval |-> keyframe_interval, fps |-> fps, frame_count |-> 0]

\* a fresh encoder of any configuration with keyframe_interval * fps >= 1
InitEncoder ==
  /\ h264 \in {H264EncoderNew(i, f) : i \in 1..MaxKeyframeInterval, f \in 1..MaxFps}
  /\ encoded = <<>>

\* no encoder is exercised
IdleEncoder ==
  /\ h264 = H264EncoderNew(1, 1)
  /\ encoded = <<>>

\* the timestamps of the frames given to the encoder
FrameTimestamps == {1, 2}

\* the keyframe test of H264Encoder::encode_frame on the incremented count
IsKeyframeAt(frame_count, keyframe_interval, fps) ==
  frame_count % (keyframe_interval * fps) = 1

\* H264Encoder::encode_frame: one packet with the frame's timestamp
EncodeFrame(timestamp) ==
  /\ Len(encoded) < MaxEncoded
  /\ h264' = [h264 EXCEPT !.frame_count = @ + 1]
  /\ encoded' = Append(encoded,
        [timestamp |-> timestamp,
         is_keyframe |-> IsKeyframeAt(h264.frame_count + 1,
                                      h264.keyframe_interval, h264.fps)])

\* what run_streaming_loop returns once a stage task has finished: each
\* spawned task logs its own error and yields (), the select arms only log,
\* and the function ends with Ok(())
SelectResult(push_result) == "Ok"

\* the select in run_streaming_loop: the first finished handle ends the attempt
\* (the capture handle finishes when both capture loops have)
SelectFirst ==
  /\ client.pc = "select"
  /\ \/ (stage.video = "done" /\ stage.audio = "done")
     \/ stage.enc = "done"
     \/ stage.push = "done"
  /\ client' = [client EXCEPT !.pc = "attempt_done",
                              !.run_result = SelectResult(stage.push_result)]
  /\ UNCHANGED <<clientCfg, stage, frameQ, packetQ>>

\* start(): Ok(_) => break, and start returns Ok(())
StartOk ==
  /\ client.pc = "attempt_done"
  /\ client.run_result = "Ok"
  /\ client' = [client EXCEPT !.pc = "returned", !.result = "Ok"]
  /\ UNCHANGED <<clientCfg, stage, frameQ, packetQ>>

\* A start() that gives up when the maximum is reached, not when it is passed
StartErrAtMaximum ==
  /\ client.pc = "attempt_done"
  /\ client.run_result = "Err"
  /\ IF ~clientCfg.auto_reconnect
       THEN client' = [client EXCEPT !.pc = "returned", !.result = "Err"]
       ELSE IF client.reconnect_attempts + 1 >= clientCfg.max_reconnect_attempts
         THEN client' = [client EXCEPT !.pc = "returned", !.result = "Err",
                                       !.reconnect_attempts = @ + 1]
         ELSE client' = [client EXCEPT !.pc = "sleep",
                                       !.reconnect_attempts = @ + 1,
                                       !.sleeps = @ + 1]
  /\ UNCHANGED <<clientCfg, stage, frameQ, packetQ>>

\* start(): Err(e) => give up without auto_reconnect or past the maximum,
\* else sleep reconnect_interval
StartErr ==
  /\ client.pc = "attempt_done"
  /\ client.run_result = "Err"
  /\ IF ~clientCfg.auto_reconnect
       THEN client' = [client EXCEPT !.pc = "returned", !.result = "Err"]
       ELSE IF client.reconnect_attempts + 1 > clientCfg.max_reconnect_attempts
         THEN client' = [client EXCEPT !.pc = "returned", !.result = "Err",
                                       !.reconnect_attempts = @ + 1]
         ELSE client' = [client EXCEPT !.pc = "sleep",
                                       !.reconnect_attempts = @ + 1,
                                       !.sleeps = @ + 1]
  /\ UNCHANGED <<clientCfg, stage, frameQ, packetQ>>

\* start(): the reconnect sleep is over, the loop runs again
Wake ==
  /\ client.pc = "sleep"
  /\ client' = [client EXCEPT !.pc = "start", !.run_result = "none"]
  /\ UNCHANGED <<clientCfg, stage, frameQ, packetQ>>

\* =================================================================
\* HlsManager / HlsPlaylist and the packager loop
\* =================================================================

\* format!("segment_{}.ts", n)
SegmentName(n) == <<"segment_", n, ".ts">>

\* format!("{}_{}", stream_key, segment_name)
SegmentKey(k, name) == <<k, "_", name>>

\* HlsPlaylist::new
HlsPlaylistNew(k) ==
  [stream_key |-> k, segments |-> <<>>, next_segment_number |-> 0,
   target_duration |-> hlsCfg.hls_segment_duration,
   max_segments |-> hlsCfg.hls_playlist_length,
   last_segment_time |-> NoTime]

\* A should_generate_segment that waits for more than the target duration
ShouldGenerateSegmentLate(pl, t) ==
  IF pl.last_segment_time = NoTime THEN TRUE
  ELSE (t - pl.last_segment_time) > pl.target_duration

\* HlsPlaylist::should_generate_segment (num_seconds of a non-negative span)
ShouldGenerateSegment(pl, t) ==
  IF pl.last_segment_time = NoTime THEN TRUE
  ELSE (t - pl.last_segment_time) >= pl.target_duration

\* `while len > max_segments { segments.remove(0) }`
RECURSIVE TrimFront(_, _)
TrimFront(segs, max) ==
  IF Len(segs) > max THEN TrimFront(Tail(segs), max) ELSE segs

\* A slip in the eviction: the newest entry is dropped instead of the oldest
RECURSIVE TrimBack(_, _)
TrimBack(segs, max) ==
  IF Len(segs) > max THEN TrimBack(SubSeq(segs, 1, Len(segs) - 1), max) ELSE segs

\* A slip in the numbering: the sequence number is taken from the list length
AddSegmentNumberedByLength(pl, name, duration, t) ==
  [pl EXCEPT
     !.segments = TrimFront(Append(pl.segments,
                      [name |-> name, duration |-> duration,
                       sequence |-> Len(pl.segments)]), pl.max_segments),
     !.next_segment_number = Len(pl.segments) + 1,
     !.last_segment_time = t]

\* A slip in the eviction: see TrimBack
AddSegmentEvictNewest(pl, name, duration, t) ==
  [pl EXCEPT
     !.segments = TrimBack(Append(pl.segments,
                      [name |-> name, duration |-> duration,
                       sequence |-> pl.next_segment_number]), pl.max_segments),
     !.next_segment_number = @ + 1,
     !.last_segment_time = t]

\* HlsPlaylist::add_segment
AddSegment(pl, name, duration, t) ==
  [pl EXCEPT
     !.segments = TrimFront(Append(pl.segments,
                      [name |-> name, duration |-> duration,
                       sequence |-> pl.next_segment_number]), pl.max_segments),
     !.next_segment_number = @ + 1,
     !.last_segment_time = t]

\* the `for segment in &self.segments` loop of generate_m3u8: two lines each
RECURSIVE SegmentLines(_)
SegmentLines(segs) ==
  IF segs = <<>> THEN <<>>
  ELSE << <<"#EXTINF:", Head(segs).duration, ".0,">>, Head(segs).name >>
       \o SegmentLines(Tail(segs))

\* A rendering whose media-sequence line counts the segments ever produced
GenerateM3u8CountingAll(pl) ==
  << <<"#EXTM3U">>, <<"#EXT-X-VERSION:3">>,
     <<"#EXT-X-TARGETDURATION:", pl.target_duration>> >>
  \o (IF pl.segments # <<>>
        THEN << <<"#EXT-X-MEDIA-SEQUENCE:", pl.next_segment_number>> >>
        ELSE <<>>)
  \o SegmentLines(pl.segments)

\* HlsPlaylist::generate_m3u8: the text as its sequence of lines, a line as
\* the pieces its format string puts together
GenerateM3u8(pl) ==
  << <<"#EXTM3U">>, <<"#EXT-X-VERSION:3">>,
     <<"#EXT-X-TARGETDURATION:", pl.target_duration>> >>
  \o (IF pl.segments # <<>>
        THEN << <<"#EXT-X-MEDIA-SEQUENCE:", Head(pl.segments).sequence>> >>
        ELSE <<>>)
  \o SegmentLines(pl.segments)

\* the playlist process_stream works on: playlists.entry(key).or_insert_with(new)
PlaylistEntry(k) ==
  IF k \in DOMAIN playlists THEN playlists[k] ELSE HlsPlaylistNew(k)

\* HashMap insert / entry assignment
PlaylistsWith(k, pl) ==
  [x \in DOMAIN playlists \cup {k} |-> IF x = k THEN pl ELSE playlists[x]]

\* A process_stream that trims the store too, one entry too far: the blob of
\* the oldest segment still listed is dropped
ProcessStreamDroppingOldestListed(k, s) ==
  IF streams[s].status # "Live"
    THEN UNCHANGED <<playlists, segments, assigned>>
    ELSE IF ~ShouldGenerateSegment(PlaylistEntry(k), now)
      THEN /\ playlists' = PlaylistsWith(k, PlaylistEntry(k))
           /\ UNCHANGED <<segments, assigned>>
      ELSE LET pl == PlaylistEntry(k)
               name == SegmentName(pl.next_segment_number)
               newpl == AddSegment(pl, name, hlsCfg.hls_segment_duration, now)
           IN /\ segments' = (segments \cup {SegmentKey(k, name)})
                               \ (IF Len(pl.segments) >= pl.max_segments
                                    THEN {SegmentKey(k, Head(newpl.segments).name)}
                                    ELSE {})
              /\ playlists' = PlaylistsWith(k, newpl)
              /\ assigned' = [assigned EXCEPT ![k] =
                     Append(@, newpl.segments[Len(newpl.segments)].sequence)]

\* HlsManager::process_stream on one listed stream; write_playlist_file may
\* fail after the playlist has been updated, which changes only the result
ProcessStream(k, s) ==
  IF streams[s].status # "Live"
    THEN UNCHANGED <<playlists, segments, assigned>>
    ELSE IF ~ShouldGenerateSegment(PlaylistEntry(k), now)
      THEN /\ playlists' = PlaylistsWith(k, PlaylistEntry(k))
           /\ UNCHANGED <<segments, assigned>>
      ELSE LET pl == PlaylistEntry(k)
               name == SegmentName(pl.next_segment_number)
               newpl == AddSegment(pl, name, hlsCfg.hls_segment_duration, now)
           IN /\ segments' = segments \cup {SegmentKey(k, name)}
              /\ playlists' = PlaylistsWith(k, newpl)
              /\ assigned' = [assigned EXCEPT ![k] =
                     Append(@, newpl.segments[Len(newpl.segments)].sequence)]

\* HlsManager::get_segment: the stored blob, or StreamNotFound
GetSegment(k, name) ==
  IF SegmentKey(k, name) \in segments THEN "Ok" ELSE "StreamNotFound"

\* AppError::into_response: the status code of each error class
IntoResponse(err) ==
  CASE err = "StreamNotFound" -> 404
    [] err = "WebRtcError" -> 400
    [] err = "HlsError" -> 500
    [] err = "Internal" -> 500

\* the hls_segment handler: any get_segment error becomes AppError::HlsError
HlsSegmentStatus(k, name) ==
  IF GetSegment(k, name) = "Ok" THEN 200 ELSE IntoResponse("HlsError")

\* no request was served yet
IdleHttp == httpResponse = [stored |-> FALSE, status |-> None]

\* GET /hls/{key}/{segment} is served
HlsSegmentRequest(k, n) ==
  /\ httpResponse' = [stored |-> SegmentKey(k, SegmentName(n)) \in segments,
                      status |-> HlsSegmentStatus(k, SegmentName(n))]
  /\ UNCHANGED hlsVars

NoSweep == [pc |-> "sleep", todo |-> {}]

InitHls ==
  /\ hlsCfg \in [hls_segment_duration : 1..MaxTargetDuration,
                 hls_playlist_length : 1..MaxPlaylistLength]
  /\ playlists = <<>>
  /\ segments = {}
  /\ sweep = NoSweep
  /\ assigned = [k \in Keys |-> <<>>]

IdleHls ==
  /\ hlsCfg = [hls_segment_duration |-> 1, hls_playlist_length |-> 1]
  /\ playlists = <<>>
  /\ segments = {}
  /\ sweep = NoSweep
  /\ assigned = [k \in Keys |-> <<>>]

\* start_hls_processing: a round starts with list_streams()
SweepStart ==
  /\ sweep.pc = "sleep"
  /\ sweep' = [pc |-> "round", todo |-> ListStreams]
  /\ UNCHANGED <<hlsCfg, playlists, segments, assigned>>

\* start_hls_processing: the next listed stream is processed; an Err is logged
SweepProcess(k, s) ==
  /\ sweep.pc = "round"
  /\ <<k, s>> \in sweep.todo
  /\ ProcessStream(k, s)
  /\ sweep' = [sweep EXCEPT !.todo = @ \ {<<k, s>>}]
  /\ UNCHANGED hlsCfg

\* start_hls_processing: the round is over, sleep one second
SweepSleep ==
  /\ sweep.pc = "round"
  /\ sweep.todo = {}
  /\ sweep' = NoSweep
  /\ UNCHANGED <<hlsCfg, playlists, segments, assigned>>

\* nothing was listed or processed yet
IdleSweepLog == sweepLog = [listed |-> {}, results |-> <<>>]

\* what process_stream returns: the only fallible call is the fs::write of
\* write_playlist_file, reached when a segment is cut
ProcessStreamResult(k, s, io_ok) ==
  IF /\ streams[s].status = "Live"
     /\ ShouldGenerateSegment(PlaylistEntry(k), now)
     /\ ~io_ok
  THEN "Io" ELSE "Ok"

\* A sweep that propagates the error of process_stream and ends
AfterProcessPropagating(result, k, s) ==
  IF result = "Ok" THEN [sweep EXCEPT !.todo = @ \ {<<k, s>>}]
  ELSE [pc |-> "ended", todo |-> sweep.todo \ {<<k, s>>}]

\* `if let Err(e) = ... { error!(..) }`: the for loop goes on either way
AfterProcess(result, k, s) == [sweep EXCEPT !.todo = @ \ {<<k, s>>}]

\* start_hls_processing: a round starts with list_streams()
SweepStartLogged ==
  /\ SweepStart
  /\ sweepLog' = [listed |-> ListStreams, results |-> <<>>]

\* start_hls_processing: the next listed stream is processed with a file
\* system that takes the playlist file or not
SweepProcessIo(k, s, io_ok) ==
  /\ sweep.pc = "round"
  /\ <<k, s>> \in sweep.todo
  /\ ProcessStream(k, s)
  /\ sweep' = AfterProcess(ProcessStreamResult(k, s, io_ok), k, s)
  /\ sweepLog' = [sweepLog EXCEPT !.results =
         Append(@, <<k, s, ProcessStreamResult(k, s, io_ok)>>)]
  /\ UNCHANGED hlsCfg

\* start_hls_processing: the round is over, sleep one second
SweepSleepLogged ==
  /\ SweepSleep
  /\ UNCHANGED sweepLog

\* =================================================================
\* MediaBuffer
\* =================================================================

\* The shapes of MediaPacket; n stands for the payload and timestamp
VideoPacket(n, is_keyframe) ==
  [kind |-> "Video", is_keyframe |-> is_keyframe, n |-> n]
AudioPacket(n) == [kind |-> "Audio", is_keyframe |-> FALSE, n |-> n]
MetadataPacket(n) == [kind |-> "Metadata", is_keyframe |-> FALSE, n |-> n]

Packets(n) ==
  {VideoPacket(n, TRUE), VideoPacket(n, FALSE), AudioPacket(n), MetadataPacket(n)}

\* MediaBuffer::new; an Option is a sequence of at most one element
MediaBufferNew == [video_keyframe |-> <<>>, audio_config |-> <<>>, metadata |-> <<>>]

\* An add_packet that caches every video packet
AddPacketCachingAnyVideo(buf, packet) ==
  IF packet.kind = "Video"
    THEN [buf EXCEPT !.video_keyframe = <<packet>>]
    ELSE IF packet.kind = "Audio"
      THEN buf
      ELSE [buf EXCEPT !.metadata = <<packet>>]

\* MediaBuffer::add_packet
AddPacket(buf, packet) ==
  IF packet.kind = "Video"
    THEN IF packet.is_keyframe
           THEN [buf EXCEPT !.video_keyframe = <<packet>>]
           ELSE buf
    ELSE IF packet.kind = "Audio"
      THEN buf
      ELSE [buf EXCEPT !.metadata = <<packet>>]

\* MediaBuffer::get_init_packets
GetInitPackets(buf) == buf.metadata \o buf.audio_config \o buf.video_keyframe

NotJoined == [at |-> NoTime, init |-> <<>>]

InitBuffer ==
  /\ mediaBuffer = MediaBufferNew
  /\ fed = <<>>
  /\ joined = NotJoined

\* a packet arrives at the cache
FeedPacket(packet) ==
  /\ Len(fed) < MaxPackets
  /\ mediaBuffer' = AddPacket(mediaBuffer, packet)
  /\ fed' = Append(fed, packet)
  /\ UNCHANGED joined

\* a viewer joins and is handed the cache's init packets
JoinViewer ==
  /\ joined' = [at |-> Len(fed), init |-> GetInitPackets(mediaBuffer)]
  /\ UNCHANGED <<mediaBuffer, fed>>

\* =================================================================
\* WebRTC signaling and the session reaper
\* =================================================================

\* chrono Duration::num_minutes of a span of d seconds: whole minutes,
\* truncated toward zero
NumMinutes(d) == IF d >= 0 THEN d \div 60 ELSE -((-d) \div 60)

\* An expiry test that already fires at the threshold
IsExpiredAtThreshold(pc, t) ==
  NumMinutes(t - pc.last_activity) >= InactivityMinutes

\* WebRtcPeerConnection::is_expired
IsExpired(pc, t) ==
  NumMinutes(t - pc.last_activity) > InactivityMinutes

\* WebRtcPeerConnection::new followed by its handle_offer
PeerConnectionNew(id, k, t) ==
  [id |-> id, stream_key |-> k, created_at |-> t, last_activity |-> t]

\* An add_viewer that inserts the viewer but leaves viewer_count as it was
AddViewerKeepCount(s, id) ==
  [s EXCEPT !.viewers = @ \cup {id}]

\* LiveStream::add_viewer, start to end, on a stream record
AddViewer(s, id) ==
  [s EXCEPT !.viewers = @ \cup {id},
            !.viewer_count = Cardinality(s.viewers \cup {id})]

InitSignal ==
  /\ peer_connections = <<>>
  /\ nextSession = 0
  /\ reaper = [slept |-> FALSE]
  /\ signalResult = "none"

\* A handle_offer that registers the session before it resolves the key
HandleOfferRegisterFirst(k) ==
  /\ nextSession < MaxSessions
  /\ nextSession' = nextSession + 1
  /\ peer_connections' =
       [x \in DOMAIN peer_connections \cup {nextSession + 1} |->
          IF x = nextSession + 1 THEN PeerConnectionNew(x, k, now)
          ELSE peer_connections[x]]
  /\ IF GetStream(k) = None
       THEN signalResult' = "StreamNotFound" /\ UNCHANGED streams
       ELSE /\ signalResult' = "Answer"
            /\ streams' = [streams EXCEPT ![GetStream(k)] =
                             AddViewer(@, nextSession + 1)]
  /\ UNCHANGED <<reaper, registry, auth, conn>>

\* handle_signal(Offer) -> handle_offer
HandleOffer(k) ==
  IF GetStream(k) = None
    THEN /\ signalResult' = "StreamNotFound"
         /\ UNCHANGED <<peer_connections, nextSession, reaper, ingestVars>>
    ELSE /\ nextSession < MaxSessions
         /\ LET id == nextSession + 1
            IN /\ nextSession' = id
               /\ streams' = [streams EXCEPT ![GetStream(k)] = AddViewer(@, id)]
               /\ peer_connections' =
                    [x \in DOMAIN peer_connections \cup {id} |->
                       IF x = id THEN PeerConnectionNew(id, k, now)
                       ELSE peer_connections[x]]
         /\ signalResult' = "Answer"
         /\ UNCHANGED <<reaper, registry, auth, conn>>

\* A handle_ice_candidate that counts as activity of the sessions
HandleIceCandidateTouching ==
  /\ signalResult' = "NoResponse"
  /\ peer_connections' =
       [x \in DOMAIN peer_connections |->
          [peer_connections[x] EXCEPT !.last_activity = now]]
  /\ UNCHANGED <<nextSession, reaper, ingestVars>>

\* handle_signal(IceCandidate) -> handle_ice_candidate
HandleIceCandidate ==
  /\ signalResult' = "NoResponse"
  /\ UNCHANGED <<peer_connections, nextSession, reaper, ingestVars>>

\* A handle_signal that rejects the variants it does not handle
HandleOtherSignalRejecting ==
  /\ signalResult' = "WebRtcError"
  /\ UNCHANGED <<peer_connections, nextSession, reaper, ingestVars>>

\* handle_signal on any other variant (Answer, Error)
HandleOtherSignal ==
  /\ signalResult' = "NoResponse"
  /\ UNCHANGED <<peer_connections, nextSession, reaper, ingestVars>>

\* cleanup_connections: one turn of the loop after its sleep
ReaperSweep ==
  /\ reaper.slept
  /\ peer_connections' =
       [x \in {y \in DOMAIN peer_connections :
                 ~IsExpired(peer_connections[y], now)} |-> peer_connections[x]]
  /\ reaper' = [slept |-> FALSE]
  /\ UNCHANGED <<nextSession, signalResult, ingestVars>>

\* one reaper interval of time passes
SignalTick ==
  /\ now < SignalMaxNow
  /\ Tick(ReaperIntervalSecs)
  /\ reaper' = [slept |-> TRUE]
  /\ UNCHANGED <<peer_connections, nextSession, signalResult, ingestVars>>


\* =================================================================
\* LiveStream::set_status, one step per lock acquisition
\* =================================================================

\* StreamStatus, Error(reason) without its reason
Statuses == {"Starting", "Live", "Stopping", "Stopped", "Error"}

\* LiveStream::new with the StreamInfo of the caller
InitStatus ==
  /\ lsStatus = "Starting"
  /\ lsIsLive \in BOOLEAN
  /\ statusLock = Free
  /\ stask = [t \in Tasks |-> [pc |-> "idle", status |-> "Starting"]]

IdleStatus ==
  /\ lsStatus = "Starting"
  /\ lsIsLive = FALSE
  /\ statusLock = Free
  /\ stask = [t \in Tasks |-> [pc |-> "idle", status |-> "Starting"]]

\* a task calls set_status(status) and waits for self.status.write()
SetStatusCall(t, status) ==
  /\ stask[t].pc = "idle"
  /\ stask' = [stask EXCEPT ![t] = [pc |-> "lock", status |-> status]]
  /\ UNCHANGED <<lsStatus, lsIsLive, statusLock>>

\* A set_status that drops the status guard right after the store
SetStatusStoreUnlocked(t) ==
  /\ stask[t].pc = "lock"
  /\ statusLock = Free
  /\ lsStatus' = stask[t].status
  /\ stask' = [stask EXCEPT ![t].pc =
        IF stask[t].status \in {"Live", "Stopped", "Error"} THEN "info" ELSE "return"]
  /\ UNCHANGED <<lsIsLive, statusLock>>

\* the write guard is granted and *current_status = status is stored; the
\* guard lives until set_status returns
SetStatusStore(t) ==
  /\ stask[t].pc = "lock"
  /\ statusLock = Free
  /\ statusLock' = t
  /\ lsStatus' = stask[t].status
  /\ stask' = [stask EXCEPT ![t].pc =
        IF stask[t].status \in {"Live", "Stopped", "Error"} THEN "info" ELSE "return"]
  /\ UNCHANGED lsIsLive

\* the two matches! arms: info.write() and the store to is_live, decided by
\* the status this call has stored
SetStatusInfo(t) ==
  /\ stask[t].pc = "info"
  /\ lsIsLive' = (stask[t].status = "Live")
  /\ stask' = [stask EXCEPT ![t].pc = "return"]
  /\ UNCHANGED <<lsStatus, statusLock>>

\* set_status returns: the guards are dropped
SetStatusReturn(t) ==
  /\ stask[t].pc = "return"
  /\ statusLock' = IF statusLock = t THEN Free ELSE statusLock
  /\ stask' = [stask EXCEPT ![t].pc = "idle"]
  /\ UNCHANGED <<lsStatus, lsIsLive>>

\* =================================================================
\* Specifications
\* =================================================================

ViewerFrame ==
  UNCHANGED <<ingestVars, clientVars, now, hlsVars, bufferVars, signalVars, registryVars, authLogVars, pusherVars, httpVars, sessionVars, statusVars, sweepLogVars, pushStageVars, pipeLogVars, encoderVars>>
IngestFrame ==
  UNCHANGED <<viewerVars, clientVars, now, hlsVars, bufferVars, signalVars, registryVars, authLogVars, pusherVars, httpVars, sessionVars, statusVars, sweepLogVars, pushStageVars, pipeLogVars, encoderVars>>
ClientFrame ==
  UNCHANGED <<viewerVars, ingestVars, now, hlsVars, bufferVars, signalVars, registryVars, authLogVars, pusherVars, httpVars, sessionVars, statusVars, sweepLogVars, pushStageVars, pipeLogVars, encoderVars>>
\* a registry operation called beside the packager
HlsRegistryFrame ==
  UNCHANGED <<viewerVars, clientVars, now, hlsVars, bufferVars, signalVars,
              registryVars, authLogVars, pusherVars, httpVars, sessionVars, statusVars, sweepLogVars, pushStageVars, pipeLogVars, encoderVars>>
\* a packager step
HlsFrame ==
  UNCHANGED <<viewerVars, clientVars, now, ingestVars, bufferVars, signalVars, registryVars, authLogVars, pusherVars, httpVars, sessionVars, statusVars, sweepLogVars, pushStageVars, pipeLogVars, encoderVars>>
\* a step of the init-packet cache
BufferFrame ==
  UNCHANGED <<viewerVars, ingestVars, clientVars, now, hlsVars, signalVars, registryVars, authLogVars, pusherVars, httpVars, sessionVars, statusVars, sweepLogVars, pushStageVars, pipeLogVars, encoderVars>>
\* a signaling, reaper or clock step beside the registry
SignalFrame == UNCHANGED <<viewerVars, clientVars, hlsVars, bufferVars, registryVars, authLogVars, pusherVars, httpVars, sessionVars, statusVars, sweepLogVars, pushStageVars, pipeLogVars, encoderVars>>
\* a registry operation called beside the signaling handler
SignalRegistryFrame ==
  UNCHANGED <<viewerVars, clientVars, now, hlsVars, bufferVars, signalVars,
              registryVars, authLogVars, pusherVars, httpVars, sessionVars, statusVars, sweepLogVars, pushStageVars, pipeLogVars, encoderVars>>
\* a call of the registry API
RegistryFrame ==
  UNCHANGED <<viewerVars, clientVars, now, hlsVars, bufferVars, signalVars, authLogVars, pusherVars, httpVars, sessionVars, statusVars, sweepLogVars, pushStageVars, pipeLogVars, encoderVars>>
\* a call of the AuthManager API
AuthFrame ==
  UNCHANGED <<viewerVars, clientVars, now, hlsVars, bufferVars, signalVars,
              registryVars, pusherVars, httpVars, sessionVars, statusVars, sweepLogVars, pushStageVars, pipeLogVars, encoderVars>>
\* a call on the pusher
PusherFrame ==
  UNCHANGED <<viewerVars, ingestVars, clientVars, now, hlsVars, bufferVars,
              signalVars, registryVars, authLogVars, httpVars, sessionVars, statusVars, sweepLogVars, pushStageVars, pipeLogVars, encoderVars>>
\* a segment request beside the packager
HttpFrame ==
  UNCHANGED <<viewerVars, ingestVars, clientVars, now, bufferVars, signalVars,
              registryVars, authLogVars, pusherVars, sessionVars, statusVars, sweepLogVars, pushStageVars, pipeLogVars, encoderVars>>
\* a message of one connection other than Connect
SessionFrame ==
  UNCHANGED <<viewerVars, clientVars, now, hlsVars, bufferVars, signalVars,
              registryVars, authLogVars, pusherVars, httpVars, sessionVars, statusVars, sweepLogVars, pushStageVars, pipeLogVars, encoderVars>>
\* a Connect message of one connection
ConnectFrame ==
  UNCHANGED <<viewerVars, clientVars, now, hlsVars, bufferVars, signalVars,
              registryVars, authLogVars, pusherVars, httpVars, statusVars, sweepLogVars, pushStageVars, pipeLogVars, encoderVars>>
\* a step of a set_status call
StatusFrame ==
  UNCHANGED <<viewerVars, ingestVars, clientVars, now, hlsVars, bufferVars,
              signalVars, registryVars, authLogVars, pusherVars, httpVars,
              sessionVars, sweepLogVars, pushStageVars, pipeLogVars, encoderVars>>
\* a packager step with its log
SweepFrame ==
  UNCHANGED <<viewerVars, clientVars, now, ingestVars, bufferVars, signalVars,
              registryVars, authLogVars, pusherVars, httpVars, sessionVars,
              statusVars, pushStageVars, pipeLogVars, encoderVars>>
\* a step of the pusher stage
PushStageFrame ==
  UNCHANGED <<viewerVars, ingestVars, clientVars, now, hlsVars, bufferVars,
              signalVars, registryVars, authLogVars, httpVars, sessionVars,
              statusVars, sweepLogVars, pipeLogVars, encoderVars>>
\* a step of the client with its pipeline log
PipelineFrame ==
  UNCHANGED <<viewerVars, ingestVars, now, hlsVars, bufferVars, signalVars,
              registryVars, authLogVars, pusherVars, httpVars, sessionVars,
              statusVars, sweepLogVars, pushStageVars, encoderVars>>
\* a call of the video encoder
EncoderFrame ==
  UNCHANGED <<viewerVars, ingestVars, clientVars, now, hlsVars, bufferVars,
              signalVars, registryVars, authLogVars, pusherVars, httpVars,
              sessionVars, statusVars, sweepLogVars, pushStageVars,
              pipeLogVars>>
\* a clock step
ClockFrame ==
  UNCHANGED <<viewerVars, clientVars, ingestVars, hlsVars, bufferVars, signalVars, registryVars, authLogVars, pusherVars, httpVars, sessionVars, statusVars, sweepLogVars, pushStageVars, pipeLogVars, encoderVars>>

NextViewers ==
  \/ \E t \in Tasks, id \in ViewerIds : AddViewerCall(t, id) /\ ViewerFrame
  \/ \E t \in Tasks : AddViewerInsert(t) /\ ViewerFrame
  \/ \E t \in Tasks : AddViewerLockInfo(t) /\ ViewerFrame
  \/ \E t \in Tasks : AddViewerUpdateCount(t) /\ ViewerFrame
  \/ \E t \in Tasks, id \in ViewerIds : RemoveViewerCall(t, id) /\ ViewerFrame
  \/ \E t \in Tasks : RemoveViewerRemove(t) /\ ViewerFrame
  \/ \E t \in Tasks : RemoveViewerUpdateCount(t) /\ ViewerFrame

InitSpecViewers ==
  InitViewers /\ IdleIngest /\ IdleClient /\ now = 0 /\ IdleHls /\ InitBuffer /\ InitSignal
  /\ InitRegistry
  /\ IdleAuthLog
  /\ IdlePusher
  /\ IdleHttp
  /\ IdleSession
  /\ IdleStatus
  /\ IdleSweepLog
  /\ IdlePushStage
  /\ IdlePipeLog
  /\ IdleEncoder
SpecViewers == InitSpecViewers /\ [][NextViewers]_vars

\* One step of task t inside a call it has made. The tokio runtime polls
\* every spawned task whose lock request can be granted, so a step that
\* stays enabled is eventually taken; the calls themselves are the callers'
\* choice and carry no fairness.
ViewerStep(t) ==
  \/ AddViewerInsert(t) /\ ViewerFrame
  \/ AddViewerLockInfo(t) /\ ViewerFrame
  \/ AddViewerUpdateCount(t) /\ ViewerFrame
  \/ RemoveViewerRemove(t) /\ ViewerFrame
  \/ RemoveViewerUpdateCount(t) /\ ViewerFrame

SpecViewersFair == SpecViewers /\ \A t \in Tasks : WF_vars(ViewerStep(t))

NextIngest ==
  \/ \E c \in Conns : PerformHandshake(c) /\ IngestFrame
  \/ \E c \in Conns : Connect(c) /\ IngestFrame
  \/ \E c \in Conns, k \in Keys : Publish(c, k) /\ IngestFrame
  \/ \E c \in Conns : PublishSetLive(c) /\ IngestFrame
  \/ \E c \in Conns, len \in PayloadLens : VideoData(c, len) /\ IngestFrame
  \/ \E c \in Conns : AudioData(c) /\ IngestFrame
  \/ \E c \in Conns : Disconnect(c) /\ IngestFrame
  \/ \E c \in Conns : ReadFail(c) /\ IngestFrame
  \/ \E c \in Conns : CleanupGet(c) /\ IngestFrame
  \/ \E c \in Conns : CleanupStop(c) /\ IngestFrame
  \/ \E c \in Conns : CleanupRemove(c) /\ IngestFrame

InitSpecIngest ==
  InitIngest /\ InitViewers /\ IdleClient /\ now = 0 /\ IdleHls /\ InitBuffer /\ InitSignal
  /\ InitRegistry
  /\ IdleAuthLog
  /\ IdlePusher
  /\ IdleHttp
  /\ IdleSession
  /\ IdleStatus
  /\ IdleSweepLog
  /\ IdlePushStage
  /\ IdlePipeLog
  /\ IdleEncoder
SpecIngest == InitSpecIngest /\ [][NextIngest]_vars

\* the message loop of every connection, with the Connect messages recorded
NextSession ==
  \/ \E c \in Conns : PerformHandshake(c) /\ SessionFrame
  \/ \E c \in Conns : ConnectAnswered(c) /\ ConnectFrame
  \/ \E c \in Conns, k \in Keys : Publish(c, k) /\ SessionFrame
  \/ \E c \in Conns : PublishSetLive(c) /\ SessionFrame
  \/ \E c \in Conns, len \in PayloadLens : VideoData(c, len) /\ SessionFrame
  \/ \E c \in Conns : AudioData(c) /\ SessionFrame
  \/ \E c \in Conns : Disconnect(c) /\ SessionFrame
  \/ \E c \in Conns : ReadFail(c) /\ SessionFrame
  \/ \E c \in Conns : CleanupGet(c) /\ SessionFrame
  \/ \E c \in Conns : CleanupStop(c) /\ SessionFrame
  \/ \E c \in Conns : CleanupRemove(c) /\ SessionFrame

InitSpecSession == InitSpecIngest
SpecSession == InitSpecSession /\ [][NextSession]_vars

NextClient ==
  \/ \E e \in BOOLEAN, p \in BOOLEAN : RunStreamingLoop(e, p) /\ ClientFrame
  \/ \E ok \in BOOLEAN : VideoCapture(ok) /\ ClientFrame
  \/ \E ok \in BOOLEAN : AudioCapture(ok) /\ ClientFrame
  \/ \E ok \in BOOLEAN : EncoderRecv(ok) /\ ClientFrame
  \/ \E ok \in BOOLEAN : PusherConnect(ok) /\ ClientFrame
  \/ \E ok \in BOOLEAN, r \in BOOLEAN : PusherRecv(ok, r) /\ ClientFrame
  \/ SelectFirst /\ ClientFrame
  \/ StartOk /\ ClientFrame
  \/ StartErr /\ ClientFrame
  \/ Wake /\ ClientFrame

InitSpecClient ==
  InitClient /\ InitViewers /\ IdleIngest /\ now = 0 /\ IdleHls /\ InitBuffer /\ InitSignal
  /\ InitRegistry
  /\ IdleAuthLog
  /\ IdlePusher
  /\ IdleHttp
  /\ IdleSession
  /\ IdleStatus
  /\ IdleSweepLog
  /\ IdlePushStage
  /\ IdlePipeLog
  /\ IdleEncoder
SpecClient == InitSpecClient /\ [][NextClient]_vars

\* the client with the use of its two channels recorded
NextPipeline ==
  \/ \E e \in BOOLEAN, p \in BOOLEAN : RunStreamingLoopLogged(e, p) /\ PipelineFrame
  \/ \E ok \in BOOLEAN : VideoCaptureLogged(ok) /\ PipelineFrame
  \/ \E ok \in BOOLEAN : AudioCaptureLogged(ok) /\ PipelineFrame
  \/ \E ok \in BOOLEAN : EncoderRecvLogged(ok) /\ PipelineFrame
  \/ \E ok \in BOOLEAN : PusherConnect(ok) /\ ClientFrame
  \/ \E ok \in BOOLEAN, r \in BOOLEAN : PusherRecvLogged(ok, r) /\ PipelineFrame
  \/ SelectFirst /\ ClientFrame
  \/ StartOk /\ ClientFrame
  \/ StartErr /\ ClientFrame
  \/ Wake /\ ClientFrame

\* The capture loops go on capturing after MaxFrames frames. Once the pusher
\* stage has ended no frame reaches a packet any more, so such a frame is
\* sent without being counted, one at a time.
LateCapture(kind) ==
  /\ stage.push = "done"
  /\ IF kind = "Video" THEN stage.video = "run" ELSE stage.audio = "run"
  /\ FrameReceiverAlive
  /\ stage.captured >= MaxFrames
  /\ frameQ = <<>>
  /\ frameQ' = <<[kind |-> kind, ts |-> stage.captured + 1]>>
  /\ UNCHANGED <<clientCfg, client, stage, packetQ>>

NextClientFair ==
  \/ \E e \in BOOLEAN, p \in BOOLEAN : RunStreamingLoop(e, p) /\ ClientFrame
  \/ \E ok \in BOOLEAN : VideoCapture(ok) /\ ClientFrame
  \/ \E ok \in BOOLEAN : AudioCapture(ok) /\ ClientFrame
  \/ \E kind \in {"Video", "Audio"} : LateCapture(kind) /\ ClientFrame
  \/ \E ok \in BOOLEAN : EncoderRecv(ok) /\ ClientFrame
  \/ \E ok \in BOOLEAN : PusherConnect(ok) /\ ClientFrame
  \/ \E ok \in BOOLEAN, r \in BOOLEAN : PusherRecv(ok, r) /\ ClientFrame
  \/ SelectFirst /\ ClientFrame
  \/ StartOk /\ ClientFrame
  \/ StartErr /\ ClientFrame
  \/ Wake /\ ClientFrame

\* The stage tasks are spawned tokio tasks: the select drops their handles,
\* which detaches them, and the runtime keeps polling them. The capture
\* loops are timer driven and the encoder is woken by every frame.
\* capture_frame and encode_frame as implemented return Ok on every call
\* (capture.rs:157-172, codec.rs:124-140, 169-181), so a turn that succeeds
\* is taken again and again: strong fairness on the encoder's successful
\* turn, which a failed turn can pre-empt by taking the frame.
SpecClientFair ==
  /\ InitSpecClient
  /\ [][NextClientFair]_vars
  /\ WF_vars(VideoCapture(TRUE) /\ ClientFrame)
  /\ WF_vars(AudioCapture(TRUE) /\ ClientFrame)
  /\ \A kind \in {"Video", "Audio"} : WF_vars(LateCapture(kind) /\ ClientFrame)
  /\ SF_vars(EncoderRecv(TRUE) /\ ClientFrame)

InitSpecPipeline == InitSpecClient
SpecPipeline == InitSpecPipeline /\ [][NextPipeline]_vars

NextHls ==
  \/ \E k \in LiveKeys : PublishStream(k) /\ HlsRegistryFrame
  \/ \E k \in LiveKeys : UnpublishStream(k) /\ HlsRegistryFrame
  \/ SweepStart /\ HlsFrame
  \/ \E k \in LiveKeys, s \in 1..MaxStreams : SweepProcess(k, s) /\ HlsFrame
  \/ SweepSleep /\ HlsFrame
  \/ (now < HlsMaxNow /\ Tick(1)) /\ ClockFrame

InitSpecHls ==
  InitHls /\ now = 0 /\ IdleIngest /\ InitViewers /\ IdleClient /\ InitBuffer /\ InitSignal
  /\ InitRegistry
  /\ IdleAuthLog
  /\ IdlePusher
  /\ IdleHttp
  /\ IdleSession
  /\ IdleStatus
  /\ IdleSweepLog
  /\ IdlePushStage
  /\ IdlePipeLog
  /\ IdleEncoder
SpecHls == InitSpecHls /\ [][NextHls]_vars

\* the segment endpoint of the HTTP server, serving what the packager stores
NextHttp ==
  \/ \E k \in LiveKeys : PublishStream(k) /\ HlsRegistryFrame
  \/ \E k \in LiveKeys : UnpublishStream(k) /\ HlsRegistryFrame
  \/ SweepStart /\ HlsFrame
  \/ \E k \in LiveKeys, s \in 1..MaxStreams : SweepProcess(k, s) /\ HlsFrame
  \/ SweepSleep /\ HlsFrame
  \/ (now < HlsMaxNow /\ Tick(1)) /\ ClockFrame
  \/ \E k \in Keys, n \in 0..HlsMaxNow : HlsSegmentRequest(k, n) /\ HttpFrame

InitSpecHttp == InitSpecHls
SpecHttp == InitSpecHttp /\ [][NextHttp]_vars

\* the packager beside publishers of every key, with a fallible file system;
\* the rounds are taken at one reading of the clock (SpecHls lets it run)
NextSweep ==
  \/ \E k \in Keys : PublishStream(k) /\ HlsRegistryFrame
  \/ \E k \in Keys : UnpublishStream(k) /\ HlsRegistryFrame
  \/ SweepStartLogged /\ SweepFrame
  \/ \E k \in Keys, s \in 1..MaxStreams, io_ok \in BOOLEAN :
       SweepProcessIo(k, s, io_ok) /\ SweepFrame
  \/ SweepSleepLogged /\ SweepFrame

InitSpecSweep == InitSpecHls
SpecSweep == InitSpecSweep /\ [][NextSweep]_vars

NextBuffer ==
  \/ \E p \in Packets(Len(fed) + 1) : FeedPacket(p) /\ BufferFrame
  \/ JoinViewer /\ BufferFrame

InitSpecBuffer ==
  InitBuffer /\ InitViewers /\ IdleIngest /\ IdleClient /\ now = 0 /\ IdleHls
  /\ InitSignal
  /\ InitRegistry
  /\ IdleAuthLog
  /\ IdlePusher
  /\ IdleHttp
  /\ IdleSession
  /\ IdleStatus
  /\ IdleSweepLog
  /\ IdlePushStage
  /\ IdlePipeLog
  /\ IdleEncoder
SpecBuffer == InitSpecBuffer /\ [][NextBuffer]_vars

NextSignal ==
  \/ \E k \in LiveKeys : PublishStream(k) /\ SignalRegistryFrame
  \/ \E k \in LiveKeys : UnpublishStream(k) /\ SignalRegistryFrame
  \/ \E k \in Keys : (HandleOffer(k) /\ UNCHANGED now) /\ SignalFrame
  \/ (HandleIceCandidate /\ UNCHANGED now) /\ SignalFrame
  \/ (HandleOtherSignal /\ UNCHANGED now) /\ SignalFrame
  \/ (ReaperSweep /\ UNCHANGED now) /\ SignalFrame
  \/ SignalTick /\ SignalFrame

InitSpecSignal ==
  InitSignal /\ now = 0 /\ IdleIngest /\ InitViewers /\ IdleClient /\ IdleHls
  /\ InitBuffer
  /\ InitRegistry
  /\ IdleAuthLog
  /\ IdlePusher
  /\ IdleHttp
  /\ IdleSession
  /\ IdleStatus
  /\ IdleSweepLog
  /\ IdlePushStage
  /\ IdlePipeLog
  /\ IdleEncoder
SpecSignal == InitSpecSignal /\ [][NextSignal]_vars

\* The clock of the model stops at SignalMaxNow. For the question whether a
\* session is ever reaped, offers are taken only while the clock can still
\* run past the session's expiry.
OfferDeadline == SignalMaxNow - (InactivityMinutes + 1) * 60

NextSignalFair ==
  \/ \E k \in LiveKeys : PublishStream(k) /\ SignalRegistryFrame
  \/ \E k \in LiveKeys : UnpublishStream(k) /\ SignalRegistryFrame
  \/ \E k \in Keys : (HandleOffer(k) /\ now <= OfferDeadline /\ UNCHANGED now) /\ SignalFrame
  \/ (HandleIceCandidate /\ UNCHANGED now) /\ SignalFrame
  \/ (HandleOtherSignal /\ UNCHANGED now) /\ SignalFrame
  \/ (ReaperSweep /\ UNCHANGED now) /\ SignalFrame
  \/ SignalTick /\ SignalFrame

\* cleanup_connections is a spawned task of its own that does nothing but
\* sleep and sweep, and the wall clock advances: both are weakly fair.
\* The signaling messages are the peers' choice and carry no fairness.
SpecSignalFair ==
  /\ InitSpecSignal
  /\ [][NextSignalFair]_vars
  /\ WF_vars((ReaperSweep /\ UNCHANGED now) /\ SignalFrame)
  /\ WF_vars(SignalTick /\ SignalFrame)

NextRegistry ==
  \/ \E k \in Keys : CreateStream(k) /\ RegistryFrame
  \/ \E k \in Keys : GetStreamCall(k) /\ RegistryFrame
  \/ \E k \in Keys : RemoveStream(k) /\ RegistryFrame
  \/ \E s \in 1..MaxStreams : SetStreamStatus(s, "Live") /\ RegistryFrame

InitSpecRegistry ==
  IdleIngest /\ InitViewers /\ IdleClient /\ now = 0 /\ IdleHls /\ InitBuffer
  /\ InitSignal
  /\ InitRegistry
  /\ IdleAuthLog
  /\ IdlePusher
  /\ IdleHttp
  /\ IdleSession
  /\ IdleStatus
  /\ IdleSweepLog
  /\ IdlePushStage
  /\ IdlePipeLog
  /\ IdleEncoder
SpecRegistry == InitSpecRegistry /\ [][NextRegistry]_vars

NextAuth ==
  \/ \E k \in AuthInputs : ValidateCall(k) /\ AuthFrame
  \/ \E k \in AuthInputs : AddStreamKey(k) /\ AuthFrame
  \/ \E k \in AuthInputs : RemoveStreamKey(k) /\ AuthFrame

InitSpecAuth ==
  InitAuth /\ InitViewers /\ IdleClient /\ now = 0 /\ IdleHls /\ InitBuffer
  /\ InitSignal /\ InitRegistry
  /\ IdlePusher
  /\ IdleHttp
  /\ IdleSession
  /\ IdleStatus
  /\ IdleSweepLog
  /\ IdlePushStage
  /\ IdlePipeLog
  /\ IdleEncoder
SpecAuth == InitSpecAuth /\ [][NextAuth]_vars

NextPusher ==
  \/ \E ok \in BOOLEAN : ConnectCall(ok) /\ PusherFrame
  \/ \E kind \in PacketKinds, ok \in BOOLEAN : PushCall(kind, ok) /\ PusherFrame
  \/ DisconnectCall /\ PusherFrame
  \/ \E ok \in BOOLEAN : ReconnectCall(ok) /\ PusherFrame

InitSpecPusher ==
  InitPusher /\ InitViewers /\ IdleIngest /\ IdleClient /\ now = 0 /\ IdleHls
  /\ InitBuffer /\ InitSignal /\ InitRegistry /\ IdleAuthLog
  /\ IdleHttp
  /\ IdleSession
  /\ IdleStatus
  /\ IdleSweepLog
  /\ IdlePushStage
  /\ IdlePipeLog
  /\ IdleEncoder
SpecPusher == InitSpecPusher /\ [][NextPusher]_vars

\* the pusher stage fed with packets of every kind over a fallible transport
NextPushStage ==
  \/ \E ok \in BOOLEAN : StartPushingConnect(ok) /\ PushStageFrame
  \/ \E kind \in PacketKinds, ok \in BOOLEAN, r \in BOOLEAN :
       StartPushingPacket(kind, ok, r) /\ PushStageFrame
  \/ StartPushingEnd /\ PushStageFrame

InitSpecPushStage == InitSpecPusher
SpecPushStage == InitSpecPushStage /\ [][NextPushStage]_vars

NextEncoder ==
  \/ \E ts \in FrameTimestamps : EncodeFrame(ts) /\ EncoderFrame

InitSpecEncoder ==
  InitEncoder /\ InitViewers /\ IdleIngest /\ IdleClient /\ now = 0 /\ IdleHls
  /\ InitBuffer /\ InitSignal /\ InitRegistry /\ IdleAuthLog /\ IdlePusher
  /\ IdleHttp /\ IdleSession /\ IdleStatus /\ IdleSweepLog /\ IdlePushStage
  /\ IdlePipeLog
SpecEncoder == InitSpecEncoder /\ [][NextEncoder]_vars

NextStatus ==
  \/ \E t \in Tasks, status \in Statuses : SetStatusCall(t, status) /\ StatusFrame
  \/ \E t \in Tasks : SetStatusStore(t) /\ StatusFrame
  \/ \E t \in Tasks : SetStatusInfo(t) /\ StatusFrame
  \/ \E t \in Tasks : SetStatusReturn(t) /\ StatusFrame

InitSpecStatus ==
  InitStatus /\ InitViewers /\ IdleIngest /\ IdleClient /\ now = 0 /\ IdleHls
  /\ InitBuffer /\ InitSignal /\ InitRegistry /\ IdleAuthLog /\ IdlePusher
  /\ IdleHttp /\ IdleSession
  /\ IdleSweepLog
  /\ IdlePushStage
  /\ IdlePipeLog
  /\ IdleEncoder
SpecStatus == InitSpecStatus /\ [][NextStatus]_vars

\* =================================================================
\* Properties
\* =================================================================

\* An observer task can read the descriptor (get_info) and the viewer set
\* (get_viewer_count) whenever no writer holds the two locks.
Observable == viewersLock.w = Free /\ infoLock.w = Free

\* C1: at every point where another task can observe the stream,
\* viewer_count equals the number of distinct viewer ids in the viewer set.
C1_CountMatchesAtEveryObservation ==
  Observable => lsViewerCount = Cardinality(lsViewers)

StreamIds == 1..Len(streams)

\* C2: on every exit path of a handler that has published a stream, the
\* published stream is Stopped and no longer the registry's entry of its key.
C2_FinalizedOnEveryExit ==
  \A c \in Conns :
    (conn[c].pc = "closed" /\ conn[c].live_stream # None) =>
      /\ streams[conn[c].live_stream].status = "Stopped"
      /\ registry[conn[c].stream_key] # conn[c].live_stream

\* C3: when a publishing connection has ended by Disconnect or read failure,
\* the stream it published is Stopped and the registry holds no stream that
\* this connection created, under any key it published.
C3_NoStaleEntryAfterDisconnect ==
  \A c \in Conns :
    conn[c].result = "Ok" =>
      /\ conn[c].live_stream # None =>
            streams[conn[c].live_stream].status = "Stopped"
      /\ \A k \in Keys :
            registry[k] # None => streams[registry[k]].creator # c

\* C4: the step in which a connection ends with an Auth error closes that
\* connection and changes neither the registry, nor any stream, nor any
\* other connection.
C4_AuthRejectChangesNothingElse ==
  [][\A c \in Conns :
       (conn[c].result # "Auth" /\ conn'[c].result = "Auth") =>
         /\ conn'[c].pc = "closed"
         /\ registry' = registry
         /\ streams' = streams
         /\ \A d \in Conns \ {c} : conn'[d] = conn[d]]_vars

\* a rejected Publish on a connection that had published before, while
\* another connection is publishing
C4_Witness ==
  \E c \in Conns, d \in Conns :
    /\ c # d
    /\ conn[c].result = "Auth"
    /\ conn[c].live_stream # None
    /\ registry[conn[c].stream_key] = conn[c].live_stream
    /\ conn[d].pc = "loop" /\ conn[d].live_stream # None

\* C5: with auto_reconnect, max_reconnect_attempts = 2 and a pipeline whose
\* every push fails, start() returns only after exactly 2 reconnect sleeps,
\* and returns an error.
C5_TwoSleepsThenFatal ==
  (/\ client.pc = "returned"
   /\ clientCfg.auto_reconnect
   /\ clientCfg.max_reconnect_attempts = 2
   /\ client.push_fail_seen
   /\ ~client.push_ok_seen)
  => (client.sleeps = 2 /\ client.result = "Err")


\* C6: a playlist never holds more than max_segments entries, and the entries
\* it holds are the most recently added ones in the order they were added:
\* their sequence numbers are the consecutive run that ends at the last
\* number given out, so every eviction took the smallest number.
C6_PlaylistBoundedAndRecent ==
  \A k \in DOMAIN playlists :
    LET pl == playlists[k]
        n == Len(pl.segments)
    IN /\ n <= pl.max_segments
       /\ \A i \in 1..n :
            pl.segments[i].sequence = pl.next_segment_number - n + (i - 1)

\* a playlist that is full and has already evicted an entry
C6_Witness ==
  \E k \in DOMAIN playlists :
    /\ Len(playlists[k].segments) = playlists[k].max_segments
    /\ playlists[k].next_segment_number > playlists[k].max_segments
    /\ playlists[k].max_segments >= 2

\* C7: for each stream key the sequence numbers given to segments are
\* strictly increasing over the whole life of the packager, so none is given
\* twice, also after evictions and after the key was removed and published
\* again.
C7_SequenceStrictlyIncreasing ==
  \A k \in Keys :
    \A i \in 1..Len(assigned[k]) : \A j \in 1..Len(assigned[k]) :
      i < j => assigned[k][i] < assigned[k][j]

\* a key whose second stream got a segment after the playlist had evicted
C7_Witness ==
  \E k \in Keys :
    /\ Len(assigned[k]) >= 3
    /\ k \in DOMAIN playlists
    /\ Len(playlists[k].segments) < Len(assigned[k])
    /\ registry[k] # None
    /\ \E s \in 1..Len(streams) :
         s < registry[k] /\ streams[s].stream_key = k
    /\ playlists[k].last_segment_time = now


\* C8: a viewer that joins after the cache was fed a metadata packet, then an
\* audio packet carrying the audio configuration, then a keyframe, is handed
\* exactly those three packets in that order.
C8_InitSequenceIsMetadataAudioKeyframe ==
  (/\ joined.at = 3
   /\ fed[1].kind = "Metadata"
   /\ fed[2].kind = "Audio"
   /\ fed[3].kind = "Video" /\ fed[3].is_keyframe)
  => joined.init = <<fed[1], fed[2], fed[3]>>


\* the steps that are a reaper sweep
SweepStep == reaper.slept /\ ~reaper'.slept

\* the idle time of session id, in seconds, at the current instant
IdleSecs(id) == now - peer_connections[id].last_activity

\* C9: every reaper sweep removes every session whose time since last
\* activity exceeds the 5-minute threshold.
C9_SweepRemovesEveryIdleSession ==
  [][SweepStep =>
       \A id \in DOMAIN peer_connections :
         IdleSecs(id) > InactivityMinutes * 60
           => id \notin DOMAIN peer_connections']_vars

\* C10: a reaper sweep never removes a session whose time since last activity
\* is at most the 5-minute threshold.
C10_SweepKeepsRecentSession ==
  [][SweepStep =>
       \A id \in DOMAIN peer_connections :
         IdleSecs(id) <= InactivityMinutes * 60
           => id \in DOMAIN peer_connections']_vars

\* a sweep has just run at this instant, and a session idle between 4 and 5
\* minutes is still in the table
C10_Witness ==
  /\ ~reaper.slept
  /\ \E id \in DOMAIN peer_connections :
       /\ IdleSecs(id) >= 240
       /\ IdleSecs(id) <= InactivityMinutes * 60


\* C11: a stream's viewer set never contains a viewer whose signaling session
\* has been reaped, and viewer_count follows the sessions still alive.
C11_NoReapedViewerInStream ==
  \A s \in 1..Len(streams) :
    /\ streams[s].viewers \subseteq DOMAIN peer_connections
    /\ streams[s].viewer_count =
         Cardinality(streams[s].viewers \cap DOMAIN peer_connections)

\* C12: an Offer whose key is not in the registry returns StreamNotFound and
\* creates no session and adds no viewer to any stream.
C12_OfferForAbsentKeyChangesNothing ==
  [][\A k \in Keys :
       (GetStream(k) = None /\ HandleOffer(k))
         => /\ signalResult' = "StreamNotFound"
            /\ UNCHANGED <<peer_connections, nextSession, streams, registry>>]_vars

\* an Offer for an absent key was refused while a session already existed
C12_Witness ==
  /\ signalResult = "StreamNotFound"
  /\ DOMAIN peer_connections # {}

\* C13: an Offer whose key is in the registry adds exactly one new session to
\* the table and one viewer with the same id to the target stream, raises that
\* stream's viewer_count by one, and returns an Answer.
C13_OfferAddsOneSessionAndViewer ==
  [][\A k \in Keys :
       (GetStream(k) # None /\ HandleOffer(k))
         => LET s == GetStream(k)
            IN /\ signalResult' = "Answer"
               /\ \E id \in (DOMAIN peer_connections') \ DOMAIN peer_connections :
                    /\ DOMAIN peer_connections' = DOMAIN peer_connections \cup {id}
                    /\ peer_connections'[id].stream_key = k
                    /\ id \notin streams[s].viewers
                    /\ streams'[s].viewers = streams[s].viewers \cup {id}
               /\ \A x \in DOMAIN peer_connections :
                    peer_connections'[x] = peer_connections[x]
               /\ streams'[s].viewer_count = streams[s].viewer_count + 1
               /\ \A o \in 1..Len(streams) : o # s => streams'[o] = streams[o]
               /\ UNCHANGED registry]_vars

\* an Offer for a registered stream was answered and its session and viewer
\* are in place
C13_Witness ==
  /\ signalResult = "Answer"
  /\ \E id \in DOMAIN peer_connections :
       LET s == GetStream(peer_connections[id].stream_key)
       IN /\ s # None
          /\ id \in streams[s].viewers
          /\ streams[s].viewer_count = 1


\* C14: after create_stream(k), and until remove_stream(k), get_stream(k)
\* returns a handle whose key is k; after remove_stream(k), and before any
\* create_stream(k), get_stream(k) returns none.
C14_CreateGetRemoveRoundTrip ==
  \A k \in Keys :
    /\ lastOp[k] = "create"
         => (GetStream(k) # None /\ streams[GetStream(k)].stream_key = k)
    /\ lastOp[k] \in {"none", "remove"} => GetStream(k) = None

\* get_stream returned none for a key that had been created and then removed,
\* while the other key is registered
C14_Witness ==
  /\ got.key # None
  /\ got.handle = None
  /\ lastOp[got.key] = "remove"
  /\ \E s \in 1..Len(streams) : streams[s].stream_key = got.key
  /\ \E k \in Keys : k # got.key /\ lastOp[k] = "create" /\ GetStream(k) # None

\* C15: create_stream on a key that is already registered replaces the entry:
\* get_stream(k) then returns the new handle, a fresh stream, and the earlier
\* stream is left as it was.
C15_SecondCreateReplaces ==
  [][\A k \in Keys :
       (GetStream(k) # None /\ CreateStream(k))
         => LET old == GetStream(k)
                new == registry'[k]
            IN /\ new # old
               /\ new = Len(streams) + 1
               /\ streams'[new] = LiveStreamNew(k, None)
               /\ \A o \in 1..Len(streams) : streams'[o] = streams[o]
               /\ \A j \in Keys : j # k => registry'[j] = registry[j]]_vars

\* the registry points at the second stream of a key whose first stream is
\* Live and no longer reachable through the registry
C15_Witness ==
  \E k \in Keys :
    /\ GetStream(k) = 2
    /\ streams[1].stream_key = k
    /\ streams[1].status = "Live"
    /\ streams[2].status = "Starting"
    /\ lastOp[k] = "create"


\* the allow-list the calls made so far add up to: the last add or remove of a
\* key decides, and a key never touched is as the configuration had it
ExpectedAllowed(k) ==
  IF authLast[k] = "add" THEN TRUE
  ELSE IF authLast[k] = "remove" THEN FALSE
  ELSE k \in authInit

\* C16: after any sequence of add_stream_key and remove_stream_key calls,
\* validate_stream_key(k) is true exactly when Auth is disabled or k is in the
\* current allow-list, for every input including the empty string.
C16_ValidateIsSwitchOrMembership ==
  \A k \in AuthInputs :
    ValidateStreamKey(k) <=> (~auth.enabled \/ ExpectedAllowed(k))

\* with Auth enabled, a configured key was removed and the validate call that
\* followed refused it
C16_Witness ==
  /\ auth.enabled
  /\ validated.key \in authInit
  /\ authLast[validated.key] = "remove"
  /\ ~validated.result
  /\ \E k \in AuthInputs : authLast[k] = "add" /\ k \notin authInit


\* C17: a push on a pusher that is not connected fails with a Network error
\* and leaves the pusher as it was: still disconnected, nothing sent.
C17_PushWhileDisconnectedFails ==
  [][\A kind \in PacketKinds, ok \in BOOLEAN :
       (~pusher.connected /\ PushCall(kind, ok))
         => /\ pushResult' = [call |-> "push", result |-> "Network"]
            /\ pusher' = pusher
            /\ pushed' = pushed]_vars

\* a pusher that had sent a packet and was disconnected since refused a push
C17_Witness ==
  /\ pushResult = [call |-> "push", result |-> "Network"]
  /\ ~pusher.connected
  /\ pushed # <<>>


\* the smallest sequence number a playlist lists
MinSequence(pl) ==
  CHOOSE m \in {pl.segments[i].sequence : i \in 1..Len(pl.segments)} :
    \A i \in 1..Len(pl.segments) : m <= pl.segments[i].sequence

\* C18: the rendered playlist is the lines #EXTM3U, #EXT-X-VERSION:3,
\* #EXT-X-TARGETDURATION:<target>, then #EXT-X-MEDIA-SEQUENCE:<n> exactly when
\* a segment is listed, n being the first listed and smallest sequence number,
\* then per listed segment in order #EXTINF:<duration>.0, and the file name
\* segment_<sequence>.ts.
C18_RenderedPlaylistText ==
  \A k \in DOMAIN playlists :
    LET pl == playlists[k]
        n == Len(pl.segments)
        txt == GenerateM3u8(pl)
        h == IF n = 0 THEN 3 ELSE 4
    IN /\ Len(txt) = h + 2 * n
       /\ txt[1] = <<"#EXTM3U">>
       /\ txt[2] = <<"#EXT-X-VERSION:3">>
       /\ txt[3] = <<"#EXT-X-TARGETDURATION:", pl.target_duration>>
       /\ n > 0 => /\ txt[4] = <<"#EXT-X-MEDIA-SEQUENCE:", pl.segments[1].sequence>>
                   /\ pl.segments[1].sequence = MinSequence(pl)
       /\ \A i \in 1..n :
            /\ txt[h + 2 * i - 1] = <<"#EXTINF:", pl.segments[i].duration, ".0,">>
            /\ txt[h + 2 * i] = <<"segment_", pl.segments[i].sequence, ".ts">>

\* a playlist that lists two segments after having evicted one
C18_Witness ==
  \E k \in DOMAIN playlists :
    /\ Len(playlists[k].segments) = 2
    /\ playlists[k].segments[1].sequence >= 1
    /\ Len(GenerateM3u8(playlists[k])) = 8


\* C19: a request for a segment that is not stored for the given key is
\* answered with status 404.
C19_MissingSegmentIs404 ==
  (httpResponse.status # None /\ ~httpResponse.stored)
    => httpResponse.status = 404

\* C20: a video or audio message handled by a publishing connection is
\* delivered into the published stream's packet path, and the connection is
\* still in its message loop, publishing the same stream, afterwards.
C20_MediaKeepsPublishing ==
  [][\A c \in Conns :
       (/\ conn[c].live_stream # None
        /\ (AudioData(c) \/ \E len \in PayloadLens : VideoData(c, len)))
         => /\ SendMediaPacket(streams[conn[c].live_stream]) = "Ok"
            /\ conn'[c].pc = "loop"
            /\ conn'[c].live_stream = conn[c].live_stream]_vars

\* C21: a connection that has created a registry entry, or is publishing,
\* has completed its handshake and has had a Connect message accepted.
C21_PublishOnlyAfterConnect ==
  \A c \in Conns :
    (conn[c].pending_stream # None \/ conn[c].live_stream # None)
      => (conn[c].pc # "handshake" /\ c \in connect_seen)

\* the position of a status in the chain Starting, Live, Stopping, Stopped
ChainRank(status) ==
  CASE status = "Starting" -> 1
    [] status = "Live" -> 2
    [] status = "Stopping" -> 3
    [] status = "Stopped" -> 4
    [] OTHER -> 5

\* C22: every change of a stream's status moves forward along the chain
\* Starting, Live, Stopping, Stopped or goes to Error, and a status of Error
\* never changes.
C22_StatusFollowsChain ==
  [][\A i \in 1..Len(streams) :
       streams'[i].status # streams[i].status
         => /\ streams[i].status # "Error"
            /\ \/ streams'[i].status = "Error"
               \/ ChainRank(streams'[i].status) > ChainRank(streams[i].status)]_vars

\* every set_status call on the stream has returned
AllReturned == \A t \in Tasks : stask[t].pc = "idle"

\* C23: once every set_status call has returned, is_live is true when the
\* status is Live and false when it is Stopped or Error; no step of a call
\* that sets Starting or Stopping changes is_live.
C23_IsLiveMatchesFinalStatus ==
  /\ [](AllReturned => /\ (lsStatus = "Live" => lsIsLive)
                       /\ (lsStatus \in {"Stopped", "Error"} => ~lsIsLive))
  /\ [][\A t \in Tasks :
          (stask[t].status \in {"Starting", "Stopping"} /\ stask'[t] # stask[t]
           /\ stask[t].pc # "idle")
            => lsIsLive' = lsIsLive]_vars

\* every call has returned, the last one set Stopping, and is_live still is
\* what an earlier set_status(Live) made it
C23_Witness ==
  /\ AllReturned
  /\ lsStatus = "Stopping"
  /\ lsIsLive
  /\ \E t \in Tasks : stask[t].status = "Live"

\* the playlist of key k has a segment boundary and the target duration has
\* not elapsed since
BoundaryTooRecent(k) ==
  /\ k \in DOMAIN playlists
  /\ playlists[k].last_segment_time # NoTime
  /\ now - playlists[k].last_segment_time < playlists[k].target_duration

\* C24: when the sweep processes a stream, a new segment is stored and
\* numbered exactly when the stream is Live and its playlist has no boundary
\* yet or the target duration has elapsed since the last one; a stream that
\* is not Live leaves playlists and segments as they were.
C24_SegmentIffLiveAndDue ==
  [][\A k \in Keys, s \in 1..MaxStreams :
       SweepProcess(k, s) =>
         LET live == streams[s].status = "Live"
             produced == /\ segments' # segments
                         /\ k \in DOMAIN playlists'
                         /\ playlists'[k].next_segment_number
                              = PlaylistEntry(k).next_segment_number + 1
                         /\ playlists'[k].last_segment_time = now
         IN /\ produced <=> (live /\ ~BoundaryTooRecent(k))
            /\ ~produced => segments' = segments
            /\ ~live => playlists' = playlists]_vars

\* a second segment was cut exactly one target duration of two seconds after
\* the first, none in between
C24_Witness ==
  \E k \in DOMAIN playlists :
    /\ assigned[k] = <<0, 1>>
    /\ playlists[k].target_duration = 2
    /\ playlists[k].last_segment_time = 2
    /\ now = 2

\* the streams processed so far in the current round
Processed == {<<sweepLog.results[i][1], sweepLog.results[i][2]>> :
                i \in 1..Len(sweepLog.results)}

\* C25: the sweep loop is always either in a round or asleep before the next
\* one, and a round ends only when every stream it listed has been processed,
\* whatever process_stream returned for any of them.
C25_SweepSurvivesStreamFailure ==
  /\ [](sweep.pc \in {"sleep", "round"})
  /\ [][(sweep.pc = "round" /\ sweep'.pc # "round")
          => (sweep'.pc = "sleep" /\ Processed = sweepLog.listed)]_vars

\* a round is over in which the first stream failed and the second one was
\* processed after it
C25_Witness ==
  /\ sweep.pc = "sleep"
  /\ Len(sweepLog.results) = 2
  /\ sweepLog.results[1][3] = "Io"
  /\ sweepLog.results[2][3] = "Ok"
  /\ Processed = sweepLog.listed

\* C26: a signal of a variant handle_signal does not handle is answered with
\* success and no response, and the session table, the registry and every
\* stream (its viewer set included) stay as they were.
C26_UnhandledSignalIsAcknowledged ==
  [][HandleOtherSignal =>
       /\ signalResult' = "NoResponse"
       /\ peer_connections' = peer_connections
       /\ registry' = registry
       /\ streams' = streams]_vars

\* a signal was acknowledged without a response while a session and the
\* viewer of its stream exist
C26_Witness ==
  /\ signalResult = "NoResponse"
  /\ DOMAIN peer_connections # {}
  /\ \E i \in 1..Len(streams) : streams[i].viewers # {}

\* C27: in the pusher stage every failed push is followed by exactly one
\* reconnect and no reconnect happens otherwise; after a successful reconnect
\* the stage is connected and still receiving, and after a failed one the
\* stage has ended with the error of the push, not that of the reconnect.
C27_OneReconnectPerPushFailure ==
  LET ev == pushStage.events
      n == Len(ev)
      Reconnects == {"reconnect_ok", "reconnect_err"}
  IN /\ \A i \in 1..n :
          /\ ev[i] = "push_err" => (i < n /\ ev[i + 1] \in Reconnects)
          /\ ev[i] \in Reconnects => (i > 1 /\ ev[i - 1] = "push_err")
          /\ ev[i] = "reconnect_err" =>
                /\ i = n
                /\ pushStage.pc = "done"
                /\ pushStage.result = ErrorOf("Network", "push_packet")
     /\ (n > 0 /\ ev[n] = "reconnect_ok" /\ pushStage.pc = "recv")
          => pusher.connected

\* the stage ended on a failed reconnect after it had recovered from an
\* earlier push failure
C27_Witness ==
  /\ pushStage.pc = "done"
  /\ pushStage.events = <<"push_err", "reconnect_ok", "push_err", "reconnect_err">>
  /\ pushStage.result = ErrorOf("Network", "push_packet")

Without(seq, S) == SelectSeq(seq, LAMBDA f : f.ts \notin S)

\* the frames or packets of one media kind, in their order
OfKind(seq, kind) == SelectSeq(seq, LAMBDA f : f.kind = kind)

\* the timestamps of a sequence of frames or packets
Timestamps(seq) == [i \in 1..Len(seq) |-> seq[i].ts]

IsPrefix(a, b) == Len(a) <= Len(b) /\ SubSeq(b, 1, Len(a)) = a

\* C29: an encode failure on a received frame leaves the encoder stage
\* running, sends nothing and removes that frame only; and the frames put on
\* the frame queue, less the skipped ones (and those whose packet found the
\* pusher gone), are exactly what reached the pusher, what waits in the packet
\* queue and what waits in the frame queue, in that order.
C29_EncodeFailureSkipsOneFrame ==
  /\ [](Without(pipeLog.captured, pipeLog.skipped \cup pipeLog.dropped)
          = pipeLog.reached \o packetQ \o frameQ)
  /\ [][(frameQ # <<>> /\ EncoderRecvLogged(FALSE))
          => /\ stage'.enc = "run"
             /\ packetQ' = packetQ
             /\ frameQ' = Tail(frameQ)
             /\ pipeLog'.skipped = pipeLog.skipped \cup {Head(frameQ).ts}
             /\ pipeLog'.reached = pipeLog.reached]_vars

\* the first frame was skipped, the encoder is still running and the packet
\* of the second frame has reached the pusher
C29_Witness ==
  /\ stage.enc = "run"
  /\ Len(pipeLog.captured) = 2
  /\ pipeLog.skipped = {pipeLog.captured[1].ts}
  /\ pipeLog.reached = <<pipeLog.captured[2]>>

\* C30: for each media kind, the timestamps of the packets that reached the
\* pusher are an initial part of the timestamps of the frames put on the
\* frame queue with the skipped ones left out, so they come in the same order
\* and none twice; they are all of them once both queues are empty and no
\* packet found the pusher gone.
C30_PerKindOrderPreserved ==
  \A kind \in {"Video", "Audio"} :
    LET sent == Timestamps(OfKind(pipeLog.reached, kind))
        due == Timestamps(OfKind(Without(pipeLog.captured, pipeLog.skipped), kind))
    IN /\ IsPrefix(sent, due)
       /\ (frameQ = <<>> /\ packetQ = <<>> /\ pipeLog.dropped = {}) => sent = due

\* two packets of one kind have reached the pusher after both had waited in
\* the packet queue
C30_Witness ==
  /\ Len(pipeLog.reached) = 2
  /\ pipeLog.reached[1].kind = pipeLog.reached[2].kind
  /\ pipeLog.reached[1].ts < pipeLog.reached[2].ts
  /\ pipeLog.skipped = {}

\* C31: an iteration of a capture loop ends the loop exactly when it has
\* captured a frame and the send fails because the encoder's receiver is
\* gone; a failed capture, or a send to a live receiver, leaves it running.
C31_CaptureExitsOnlyOnSendFailure ==
  [][/\ \A ok \in BOOLEAN :
          VideoCapture(ok) =>
            (stage'.video = "done" <=> (ok /\ ~FrameReceiverAlive))
     /\ \A ok \in BOOLEAN :
          AudioCapture(ok) =>
            (stage'.audio = "done" <=> (ok /\ ~FrameReceiverAlive))
     /\ (stage.video = "run" /\ stage'.video = "done") => ~FrameReceiverAlive
     /\ (stage.audio = "run" /\ stage'.audio = "done") => ~FrameReceiverAlive]_vars

\* the video loop has exited after the encoder stage ended, having sent
\* frames before; the audio loop has not reached its next send yet
C31_Witness ==
  /\ stage.video = "done"
  /\ stage.audio = "run"
  /\ stage.enc = "done"
  /\ stage.captured > 0

\* C32: with N = keyframe_interval * fps, the packets a fresh video encoder
\* tags as keyframes are exactly those at positions 1, N + 1, 2N + 1, ... of
\* its output.
C32_KeyframeCadence ==
  LET N == h264.keyframe_interval * h264.fps
  IN \A i \in 1..Len(encoded) :
       encoded[i].is_keyframe <=> ((i - 1) % N = 0)

\* the keyframes and the metadata packets among the packets fed so far
FedKeyframes == SelectSeq(fed, LAMBDA q : q.kind = "Video" /\ q.is_keyframe)
FedMetadata == SelectSeq(fed, LAMBDA q : q.kind = "Metadata")

\* the last element of a sequence as an Option
LastOf(seq) == IF seq = <<>> THEN <<>> ELSE <<seq[Len(seq)]>>

\* C33: the cached keyframe is the last video packet fed that was marked as
\* a keyframe and the cached metadata is the last metadata packet fed (none
\* when there was none); feeding a video packet that is not a keyframe, or
\* an audio packet, leaves the cache as it was.
C33_CacheHoldsLatestKeyframeAndMetadata ==
  /\ [](/\ mediaBuffer.video_keyframe = LastOf(FedKeyframes)
        /\ mediaBuffer.metadata = LastOf(FedMetadata))
  /\ [][\A q \in Packets(Len(fed) + 1) :
          (FeedPacket(q) /\ (q.kind = "Audio" \/ (q.kind = "Video" /\ ~q.is_keyframe)))
            => mediaBuffer' = mediaBuffer]_vars

\* a keyframe is cached after a later video packet that was no keyframe and
\* an audio packet were fed
C33_Witness ==
  /\ Len(fed) = 3
  /\ fed[1].kind = "Video" /\ fed[1].is_keyframe
  /\ fed[2].kind = "Video" /\ ~fed[2].is_keyframe
  /\ fed[3].kind = "Audio"
  /\ mediaBuffer.video_keyframe = <<fed[1]>>

\* every task is inside a call and none of them can take its next step
ViewersDeadlocked ==
  /\ \A t \in Tasks : vtask[t].pc # "idle"
  /\ \A t \in Tasks : ~ENABLED ViewerStep(t)

\* C34: concurrent add_viewer and remove_viewer calls on one stream never
\* block each other for good, and under fair scheduling every call that was
\* made returns.
C34_EveryViewerCallReturns ==
  /\ [](~ViewersDeadlocked)
  /\ \A t \in Tasks : (vtask[t].pc # "idle") ~> (vtask[t].pc = "idle")

\* no add_viewer or remove_viewer call is in progress
AllViewerCallsReturned == \A t \in Tasks : vtask[t].pc = "idle"

\* C35: whenever every add_viewer and remove_viewer call that was made has
\* returned, viewer_count equals the size of the viewer set, whatever the
\* interleaving of the calls was.
C35_CountMatchesOnceAllReturned ==
  AllViewerCallsReturned => lsViewerCount = Cardinality(lsViewers)

\* all calls have returned and left two viewers counted
C35_Witness ==
  /\ AllViewerCallsReturned
  /\ lsViewers = ViewerIds
  /\ lsViewerCount = 2

\* connection d is in its message loop as the publisher of stream i
StillPublishing(d, i) ==
  /\ conn[d].pc \in {"publish_live", "loop"}
  /\ i \in {conn[d].pending_stream, conn[d].live_stream}

\* stream i was created by a connection other than c that still publishes it
OwnedByAnother(c, i) ==
  \E d \in Conns \ {c} : streams[i].creator = d /\ StillPublishing(d, i)

\* C36: the cleanup of a disconnecting publisher never stops a stream, and
\* never removes the registry entry of a stream, that another connection
\* created and still publishes, also when both used the same key.
C36_CleanupTouchesOnlyOwnStream ==
  [][\A c \in Conns :
       /\ CleanupStop(c) =>
            \A i \in StreamIds : streams'[i] # streams[i] => ~OwnedByAnother(c, i)
       /\ CleanupRemove(c) =>
            \A k \in Keys : (registry'[k] # registry[k]) => ~OwnedByAnother(c, registry[k])]_vars

\* C37: under a fair reaper and an advancing clock every signaling session
\* that was registered is eventually removed from the session map, whatever
\* signaling messages arrive after its Offer.
C37_EverySessionEventuallyReaped ==
  \A id \in 1..MaxSessions :
    (id \in DOMAIN peer_connections) ~> (id \notin DOMAIN peer_connections)

\* a session was registered and the reaper has removed it
C37_Witness ==
  /\ nextSession > 0
  /\ peer_connections = <<>>
  /\ signalResult = "NoResponse"
  /\ now > (InactivityMinutes + 1) * 60

\* the segment names the playlist of key k lists
ListedNames(k) ==
  IF k \in DOMAIN playlists
    THEN {playlists[k].segments[i].name : i \in 1..Len(playlists[k].segments)}
    ELSE {}

\* C38: at every point between the steps of the sweep, which is where a
\* reader can come in, every segment name a playlist lists has its data in
\* the store, so get_segment for that name finds it.
C38_ListedSegmentsAreStored ==
  \A k \in Keys : \A name \in ListedNames(k) : GetSegment(k, name) = "Ok"

\* a playlist that lists two stored segments after having evicted one
C38_Witness ==
  \E k \in DOMAIN playlists :
    /\ Len(playlists[k].segments) = 2
    /\ playlists[k].next_segment_number > 2
    /\ \A name \in ListedNames(k) : SegmentKey(k, name) \in segments
    /\ sweep.pc = "round"

\* the blobs the store holds for stream key k
StoredFor(k) == {x \in segments : x[1] = k}

\* C39: the store never holds more segment blobs for a stream than the
\* playlist window allows: what the playlist evicts is dropped from the
\* store as well.
C39_StoreBoundedByWindow ==
  \A k \in Keys :
    /\ Cardinality(StoredFor(k)) <= hlsCfg.hls_playlist_length
    /\ \A x \in StoredFor(k) : x[3] \in ListedNames(k)

\* the encoder stage and both capture loops have returned
UpstreamStagesDone ==
  stage.enc = "done" /\ stage.video = "done" /\ stage.audio = "done"

\* C40: once the pusher stage of an attempt has ended, the encoder stage and
\* both capture loops of that attempt eventually return, given that their
\* tasks keep being scheduled.
C40_UpstreamStagesEndAfterPusher ==
  (stage.push = "done") ~> UpstreamStagesDone

\* the pusher stage ended with an error and the three upstream tasks have
\* returned after start() had already returned
C40_Witness ==
  /\ stage.push = "done"
  /\ stage.push_result = "Err"
  /\ UpstreamStagesDone
  /\ client.pc = "returned"

====
